---- MODULE Spec2Model ----
(***************************************************************************)
(* Model of the image converter: the worker thread ImageConverter.run      *)
(* (src/converter.py) with the cancel() call that the window makes from    *)
(* the interface thread, and the window's convert / cancel handlers        *)
(* (src/ui_mainwindow.py).                                                 *)
(*                                                                         *)
(* Spec    one ImageConverter object: start(), run() and a concurrent      *)
(*         cancel(), for every size-spec sequence up to MaxItems.          *)
(* SpecUI  the window: convert_images, cancel_conversion with its bounded  *)
(*         wait, the slots the worker's signals are connected to, and the  *)
(*         worker it starts.                                               *)
(* SpecJob       one run for each source size, size spec, format, mode,    *)
(*               quality, dpi and input name.                              *)
(* SpecUtil      calls of the pure helpers: src/utils and convert_image.   *)
(* SpecSelected  one run for each selection of size checkboxes.            *)
(* SpecPreview   generate_preview_data, then the run on the same values.   *)
(* SpecDownload  ImageDownloader.run (src/downloader.py).                  *)
(* SpecUnique    ensure_unique_filename (src/utils/file_utils.py), with    *)
(*               weak fairness of its steps.                               *)
(***************************************************************************)
EXTENDS Integers, Sequences, FiniteSets, TLC

\* ------------------------------------------------------------------ bounds
MaxItems == 3
\* preset checkboxes of the window that are modelled
NumPresets == 0
\* conversions the window starts
MaxJobs == 2

\* ------------------------------------------------------- program constants
\* converter.py:92  "if width > 8000 or height > 8000: continue"
MaxDim == 8000

\* --------------------------------------------------------------- size specs
\* A size spec is the string "original" or a (width, height) tuple in the
\* source; here one record shape carries both.
Original == [orig |-> TRUE, w |-> 0, h |-> 0]
Sz(w, h) == [orig |-> FALSE, w |-> w, h |-> h]

SizeSpecs == {Original, Sz(100, 100), Sz(50, 50), Sz(9000, 9000)}
Formats == {"png", "ico"}

SeqsUpTo(S, n) == UNION {[1..k -> S] : k \in 1..n}

\* faulty variant: the skip threshold taken from the input ceiling (10000)
Oversize_InputCeiling(size) == size.w > 10000 \/ size.h > 10000

\* converter.py:92
Oversize(size) == size.w > MaxDim \/ size.h > MaxDim

VARIABLES
    sizes,            \* self.sizes
    output_format,    \* self.output_format
    lock_aspect_ratio, \* self.lock_aspect_ratio
    resize_mode,      \* self.resize_mode
    dpi,              \* self.dpi
    quality,          \* self.quality
    base_name,        \* Path(self.input_path).stem, a sequence of characters
    img_size,         \* img.size of the source image, [w, h]
    openable,         \* whether Image.open(self.input_path) succeeds
    cancelled,        \* self._cancelled
    pc,               \* position of the worker thread in run()
    state,            \* Idle / Running / Completed / Cancelled / Failed
    i,                \* loop index of run(), 1-based (the source's i is i - 1)
    output_files,     \* the local list output_files
    written,          \* files saved by this run: <<[item, name], ...>>
    signals,          \* every signal this converter has emitted, in order
    exc_log,          \* history: exceptions raised, <<[item, stage], ...>>
    img_open,         \* the source image file is open (inside the with block)
    opens,            \* history: how often this run opened the source image
    processed,        \* processed_img: its size and how it was made
    save_kwargs,      \* the local dict save_kwargs
    saves,            \* history: the calls of processed_img.save, in order
    resizes,          \* history: the sizes passed to resize, <<[item, w, h], ...>>
    cancel_pos,       \* history (Spec): where run() was at the first cancel()
    ui_queue,         \* signals queued for the interface thread, not yet handled
    convert_btn,      \* self.convert_btn.isEnabled()
    cancel_btn,       \* self.cancel_btn.isVisible()
    progress_bar,     \* [visible, value, max] of self.progress_bar
    status_label,     \* self.status_label.text()
    ui_pc,            \* interface thread: ready / waiting (in wait) / aborted
    detached,         \* running worker threads self.converter no longer names
    wait_result,      \* history: what the last converter.wait(3000) returned
    jobs,             \* conversions started so far (bounded by MaxJobs)
    util_call,        \* the last call of a function of src/utils: name and arguments
    util_ret,         \* what that call returned
    url,              \* ImageDownloader: urlparse(self.url) - scheme, netloc, path suffix
    response,         \* what requests.get(self.url) meets: an error or a response
    tmp_writable,     \* whether the file at temp_path can be opened for writing
    temp_file,        \* the file at temp_path: [exists, size]
    extension,        \* the local extension: the suffix of temp_path
    dl_pc,            \* position of the downloader thread in run()
    dl_signals,       \* every signal the downloader has emitted, in order
    dl_wrote,         \* history: this run opened the file at temp_path for writing
    files,            \* the names of the files that exist in the directory of file_path
    file_path,        \* ensure_unique_filename: the name of its argument
    counter,          \* ensure_unique_filename: the local counter
    euf_pc,           \* position in ensure_unique_filename
    unique_path,      \* what ensure_unique_filename returned
    pv_pc,            \* position of the interface thread in generate_preview_data
    pv_i,             \* generate_preview_data: the item of its loop, 1-based
    preview_data,     \* generate_preview_data: the local list preview_data
    pv_exc            \* history: exceptions raised in generate_preview_data

jobFields == <<sizes, output_format, lock_aspect_ratio, resize_mode, dpi, quality,
              base_name, img_size, openable>>
\* the locals of run() that hold the image being worked on
imgVars == <<img_open, opens, processed, save_kwargs, saves, resizes>>
runVars == <<pc, state, i, output_files, written, signals, exc_log, imgVars>>
convVars == <<jobFields, cancelled, runVars, cancel_pos>>
dlVars == <<url, response, tmp_writable, temp_file, extension, dl_pc, dl_signals,
           dl_wrote>>
uniqVars == <<files, file_path, counter, euf_pc, unique_path>>
pvVars == <<pv_pc, pv_i, preview_data, pv_exc>>
utilVars == <<util_call, util_ret, dlVars, uniqVars, pvVars>>
uiVars == <<convert_btn, cancel_btn, progress_bar, status_label, ui_pc, detached,
            wait_result, jobs, utilVars>>
vars == <<convVars, ui_queue, uiVars>>

\* --------------------------------------------------------- format names
\* the format names the program is given: the entries of format_combo
\* (ui_mainwindow.py:826), lower-cased by convert_images (1567), and the
\* names the tests pass (test_converter.py:52-55)
FormatNames == {"PNG", "JPEG", "JPG", "WebP", "ICO", "png", "jpeg", "jpg", "webp", "ico"}

\* str.lower() on a format name
lower(s) ==
    CASE s \in {"PNG", "png"} -> "png"
      [] s \in {"JPEG", "jpeg"} -> "jpeg"
      [] s \in {"JPG", "jpg"} -> "jpg"
      [] s \in {"WebP", "webp"} -> "webp"
      [] s \in {"ICO", "ico"} -> "ico"

\* str.upper() on a format name
upper(s) ==
    CASE lower(s) = "png" -> "PNG"
      [] lower(s) = "jpeg" -> "JPEG"
      [] lower(s) = "jpg" -> "JPG"
      [] lower(s) = "webp" -> "WEBP"
      [] lower(s) = "ico" -> "ICO"

\* converter.py:215-217
pil_format(fmt) == IF upper(fmt) = "JPG" THEN "JPEG" ELSE upper(fmt)

\* ------------------------------------------------------ float arithmetic
\* run() computes aspect_ratio = W / H as a Python float (IEEE 754 binary64:
\* a 53-bit significand, rounded to nearest) and truncates width /
\* aspect_ratio and height * aspect_ratio with int(). The quotient W / H is
\* rounded once and the second operation once more; int() of the result is
\* the exact floor q, except that when the exact value is the integer q the
\* two roundings can leave the float just below q, and int() gives q - 1.
\* The operators below decide that case with integers only.

\* the largest e with 2^e <= q, for q >= 1
RECURSIVE FloorLog2(_)
FloorLog2(q) == IF q < 2 THEN 0 ELSE 1 + FloorLog2(q \div 2)

\* the least j with W * 2^j >= H
RECURSIVE CeilLog2Ratio(_, _)
CeilLog2Ratio(W, H) == IF W >= H THEN 0 ELSE 1 + CeilLog2Ratio(2 * W, H)

\* the binary exponent of the float W / H: floor(log2(W / H))
RatioExp(W, H) == IF W >= H THEN FloorLog2(W \div H) ELSE 0 - CeilLog2Ratio(W, H)

\* (r * 2^k) % H
RECURSIVE ShiftMod(_, _, _)
ShiftMod(r, k, H) == IF k = 0 THEN r % H ELSE ShiftMod((2 * r) % H, k - 1, H)

\* the remainder of W * 2^(52 - e) by H: what rounding W / H to 53 bits
\* drops (rounded down when 2 * rem < H, up when 2 * rem > H, exact when 0)
RatioRem(W, H) == ShiftMod(W % H, 52 - RatioExp(W, H), H)

IsPow2(q) == q = 2^FloorLog2(q)

\* x * 2^s > y for integers x >= 0, y >= 1, without leaving 32 bits
GtScaled(x, s, y) ==
    IF s >= 0
    THEN (IF s > 30 THEN x > 0 ELSE x > y \div (2^s))
    ELSE (IF 0 - s > 30 THEN FALSE ELSE (x - 1) \div (2^(0 - s)) >= y)

\* the two roundings leave the float below the exact integer q by more than
\* half the distance to the next float below q; err is the rounding error of
\* W / H scaled by the other operand, over
FloatFallsBelow(q, err, over, W, H) ==
    GtScaled(err, 1 + (IF IsPow2(q) THEN 1 ELSE 0) - FloorLog2(q) + RatioExp(W, H), over)

\* int(w / (W / H)), converter.py:125 and 159
int_div_ratio(w, W, H) ==
    LET q == (w * H) \div W
        r == RatioRem(W, H)
    IN  IF (w * H) % W # 0 \/ q = 0 \/ 2 * r <= H THEN q
        ELSE IF FloatFallsBelow(q, q * (H - r), W, W, H) THEN q - 1 ELSE q

\* int(h * (W / H)), converter.py:129 and 155
int_mul_ratio(h, W, H) ==
    LET q == (h * W) \div H
        r == RatioRem(W, H)
    IN  IF (h * W) % H # 0 \/ q = 0 \/ r = 0 \/ 2 * r >= H THEN q
        ELSE IF FloatFallsBelow(q, h * r, H, W, H) THEN q - 1 ELSE q

\* int(a * max_size / b), converter.py:73, 76, 101, 104: the product is an
\* exact integer and the one rounding of the quotient never crosses an integer
int_scale(a, max_size, b) == (a * max_size) \div b

\* ------------------------------------------------------------ resize engine
\* faulty variant: the longer side is set to 256 and the other one kept
TargetSize_KeepShort(size, fmt) ==
    IF lower(fmt) = "ico" /\ (size.w > 256 \/ size.h > 256)
    THEN IF size.w > size.h THEN [w |-> 256, h |-> size.h] ELSE [w |-> size.w, h |-> 256]
    ELSE [w |-> size.w, h |-> size.h]

\* converter.py:95-105: the ICO limit applied to the integer width and height
\* of an explicit size spec
TargetSize(size, fmt) ==
    IF lower(fmt) = "ico" /\ (size.w > 256 \/ size.h > 256)
    THEN IF size.w > size.h
         THEN [w |-> 256, h |-> int_scale(size.h, 256, size.w)]
         ELSE [w |-> int_scale(size.w, 256, size.h), h |-> 256]
    ELSE [w |-> size.w, h |-> size.h]

\* an image of width w and height h, made from a resize of the source to
\* (nw, nh) and an offset (x, y)
Img(how, w, h, nw, nh, x, y) ==
    [how |-> how, w |-> w, h |-> h, nw |-> nw, nh |-> nh, x |-> x, y |-> y,
     info_dpi |-> 0]

NoImage == Img("none", 0, 0, 0, 0, 0, 0)

\* converter.py:64-78: "original" - a copy of the source, resized for ICO
\* when the source is larger than 256
ProcessedOriginal(src, fmt) ==
    IF lower(fmt) = "ico" /\ (src.w > 256 \/ src.h > 256)
    THEN IF src.w > src.h
         THEN Img("original_ico", 256, int_scale(src.h, 256, src.w),
                  256, int_scale(src.h, 256, src.w), 0, 0)
         ELSE Img("original_ico", int_scale(src.w, 256, src.h), 256,
                  int_scale(src.w, 256, src.h), 256, 0, 0)
    ELSE Img("original", src.w, src.h, src.w, src.h, 0, 0)

\* converter.py:118-122 and 148-152: aspect_ratio > target_ratio, two float
\* quotients of integers below 2^15; they compare as the exact ratios do
Wider(src, t) == src.w * t.h > t.w * src.h

\* faulty variant: the image is fitted by the other side
Fit_ByOtherSide(src, t) ==
    LET new_width == IF Wider(src, t) THEN int_mul_ratio(t.h, src.w, src.h) ELSE t.w
        new_height == IF Wider(src, t) THEN t.h ELSE int_div_ratio(t.w, src.w, src.h)
    IN  Img("fit", t.w, t.h, new_width, new_height,
            (t.w - new_width) \div 2, (t.h - new_height) \div 2)

\* converter.py:115-143: fit inside the target, centred on a canvas of the
\* target size
Fit(src, t) ==
    LET new_width == IF Wider(src, t) THEN t.w ELSE int_mul_ratio(t.h, src.w, src.h)
        new_height == IF Wider(src, t) THEN int_div_ratio(t.w, src.w, src.h) ELSE t.h
    IN  Img("fit", t.w, t.h, new_width, new_height,
            (t.w - new_width) \div 2, (t.h - new_height) \div 2)

\* faulty variant: the aspect ratio is kept although stretch is asked for
Stretch_KeepAspect(src, t) ==
    Img("stretch", Fit(src, t).nw, Fit(src, t).nh, Fit(src, t).nw, Fit(src, t).nh, 0, 0)

\* converter.py:111-113: img.resize((width, height))
Stretch(src, t) == Img("stretch", t.w, t.h, t.w, t.h, 0, 0)

\* converter.py:145-167: fill the target, crop the centre
Crop(src, t) ==
    LET new_width == IF Wider(src, t) THEN int_mul_ratio(t.h, src.w, src.h) ELSE t.w
        new_height == IF Wider(src, t) THEN t.h ELSE int_div_ratio(t.w, src.w, src.h)
    IN  Img("crop", t.w, t.h, new_width, new_height,
            (new_width - t.w) \div 2, (new_height - t.h) \div 2)

\* converter.py:119 and 149: target_ratio = width / height raises
\* ZeroDivisionError when the ICO limit left a height of 0
ResizeMustRaise(size, fmt, lock, mode) ==
    /\ ~size.orig
    /\ lock /\ mode \in {"fit", "crop"}
    /\ TargetSize(size, fmt).h = 0

\* converter.py:61-167: processed_img for a size spec; the mode is one of
\* stretch, fit and crop (ui_mainwindow.py:840, 1569)
ProcessedImage(src, size, fmt, lock, mode) ==
    IF size.orig THEN ProcessedOriginal(src, fmt)
    ELSE LET t == TargetSize(size, fmt) IN
         IF ~lock \/ mode = "stretch" THEN Stretch(src, t)
         ELSE IF mode = "fit" THEN Fit(src, t)
         ELSE Crop(src, t)

\* converter.py:209-212: processed_img.info['dpi']
WithInfoDpi(img, fmt, d) ==
    IF lower(fmt) \in {"png", "jpeg", "jpg"} THEN [img EXCEPT !.info_dpi = d] ELSE img

\* ----------------------------------------------------------- format encoder
\* a dict of keyword arguments: keys names the keys that are present
NoKwargs ==
    [keys |-> {}, quality |-> 0, optimize |-> FALSE, dpi |-> 0, method |-> 0,
     lossless |-> FALSE, exact |-> FALSE, compress_level |-> 0, sizes |-> <<>>]

\* faulty variant: the boundaries 90 and 70 fall in the higher-compression class
compress_level_Exclusive(q) == IF q > 90 THEN 1 ELSE IF q > 70 THEN 6 ELSE 9

\* converter.py:191-196
compress_level(q) == IF q >= 90 THEN 1 ELSE IF q >= 70 THEN 6 ELSE 9

\* faulty variant: the quality is passed on as it is
webp_quality_Uncapped(q) == q

\* converter.py:180, min(self.quality, 85)
webp_quality(q) == IF q < 85 THEN q ELSE 85

\* converter.py:200-207: whether the ICO save is given sizes=[(width, height)]
ico_sizes_hint(img) == img.w <= 256 /\ img.h <= 256

\* converter.py:173-207: save_kwargs
SaveKwargs(fmt, q, d, img) ==
    IF lower(fmt) \in {"jpeg", "jpg"}
    THEN [NoKwargs EXCEPT !.keys = {"quality", "optimize", "dpi"},
                          !.quality = q, !.optimize = TRUE, !.dpi = d]
    ELSE IF lower(fmt) = "webp"
    THEN [NoKwargs EXCEPT !.keys = {"quality", "method", "lossless", "exact"},
                          !.quality = webp_quality(q), !.method = 1]
    ELSE IF lower(fmt) = "png"
    THEN [NoKwargs EXCEPT !.keys = {"optimize", "dpi", "compress_level"},
                          !.optimize = TRUE, !.dpi = d,
                          !.compress_level = compress_level(q)]
    ELSE IF lower(fmt) = "ico" /\ ico_sizes_hint(img)
    THEN [NoKwargs EXCEPT !.keys = {"sizes"}, !.sizes = <<img.w, img.h>>]
    ELSE NoKwargs

\* -------------------------------------------------------------- file names
\* file_utils.py:25
invalid_chars == {"<", ">", ":", "\"", "/", "\\", "|", "?", "*"}

\* file_utils.py:27-29: every invalid character replaced by "_"
replace_invalid(filename) ==
    [k \in DOMAIN filename |-> IF filename[k] \in invalid_chars THEN "_" ELSE filename[k]]

\* str.strip(' .')
RECURSIVE lstrip(_)
lstrip(s) == IF s # <<>> /\ Head(s) \in {" ", "."} THEN lstrip(Tail(s)) ELSE s
RECURSIVE rstrip(_)
rstrip(s) ==
    IF s # <<>> /\ s[Len(s)] \in {" ", "."} THEN rstrip(SubSeq(s, 1, Len(s) - 1)) ELSE s
strip(s) == rstrip(lstrip(s))

\* faulty variant: only leading characters are stripped
get_safe_filename_LeftOnly(filename) ==
    IF lstrip(replace_invalid(filename)) = <<>> THEN <<"i", "m", "a", "g", "e">>
    ELSE lstrip(replace_invalid(filename))

\* file_utils.py:20-38
get_safe_filename(filename) ==
    IF strip(replace_invalid(filename)) = <<>> THEN <<"i", "m", "a", "g", "e">>
    ELSE strip(replace_invalid(filename))

\* the index of the last "." of a name, 0 when there is none
RECURSIVE rfind_dot(_, _)
rfind_dot(name, k) == IF k = 0 \/ name[k] = "." THEN k ELSE rfind_dot(name, k - 1)

\* pathlib: PurePath.stem of a file name
stem(name) ==
    LET k == rfind_dot(name, Len(name)) IN
      IF 1 < k /\ k < Len(name) THEN SubSeq(name, 1, k - 1) ELSE name

\* the file name f"{base}.{ext}" or f"{base}_{w}x{h}.{ext}"
FileName(base, size, ext) ==
    IF size.orig THEN [stem |-> base, sized |-> FALSE, w |-> 0, h |-> 0, ext |-> ext]
    ELSE [stem |-> base, sized |-> TRUE, w |-> size.w, h |-> size.h, ext |-> ext]

\* file_utils.py:82-95
create_output_filename(input_name, size, fmt) ==
    FileName(get_safe_filename(stem(input_name)), size, lower(fmt))

\* ---------------------------------------------------------- resize options
\* a Python number: an int, or a float given in tenths
Num(isint, tenths) == [isint |-> isint, tenths |-> tenths]
IntNum(n) == Num(TRUE, 10 * n)

\* resize_options.py:37-40 (and 42-45 with "Height")
dimension_errors(label, x) ==
    IF ~x.isint \/ x.tenths <= 0 THEN <<label \o " must be a positive integer">>
    ELSE IF x.tenths > 10 * 10000 THEN <<label \o " cannot exceed 10,000 pixels">>
    ELSE <<>>

\* faulty variant: a bad width ends the validation
validate_custom_size_FirstOnly(width, height) ==
    IF dimension_errors("Width", width) # <<>> THEN dimension_errors("Width", width)
    ELSE dimension_errors("Height", height)

\* resize_options.py:31-47
validate_custom_size(width, height) ==
    dimension_errors("Width", width) \o dimension_errors("Height", height)

\* resize_options.py:109-127
optimize_size_for_format(width, height, fmt) ==
    IF lower(fmt) = "ico" /\ (width > 256 \/ height > 256)
    THEN IF width > height
         THEN [w |-> 256, h |-> int_scale(height, 256, width)]
         ELSE [w |-> int_scale(width, 256, height), h |-> 256]
    ELSE [w |-> width, h |-> height]

\* ------------------------------------------------------------ convert_image
\* What a call of convert_image meets: whether Image.open succeeds, the mode
\* of the source and its size, and the operation that raises when it is
\* reached ("none": nothing raises; "save" stands for an encoder error and for
\* an output path that cannot be written)
Env(canOpen, mode, src, fails) ==
    [openable |-> canOpen, mode |-> mode, src |-> src, fails |-> fails]

\* converter.py:279-290
ConvertKwargs(fmt) ==
    IF lower(fmt) \in {"jpeg", "jpg"}
    THEN [NoKwargs EXCEPT !.keys = {"quality", "optimize"}, !.quality = 95,
                          !.optimize = TRUE]
    ELSE IF lower(fmt) = "webp"
    THEN [NoKwargs EXCEPT !.keys = {"quality", "method", "lossless"}, !.quality = 95,
                          !.method = 4]
    ELSE IF lower(fmt) = "png"
    THEN [NoKwargs EXCEPT !.keys = {"optimize", "compress_level"}, !.optimize = TRUE,
                          !.compress_level = 6]
    ELSE NoKwargs

\* the outcome of a call: the value returned (ret, when the call returned),
\* whether an exception left the call, and what the call did on its way
Outcome(returned, ret, opened, resized, saved, w, h, fmt, kwargs) ==
    [returned |-> returned, ret |-> ret, opened |-> opened, resized |-> resized,
     saved |-> saved, w |-> w, h |-> h, format |-> fmt, kwargs |-> kwargs]

NoOutcome == Outcome(FALSE, FALSE, FALSE, FALSE, FALSE, 0, 0, "", NoKwargs)

\* converter.py:266-271: the source is flattened to RGB for JPEG output when
\* its mode is RGBA or P
NeedsRgb(env, fmt) == lower(fmt) \in {"jpeg", "jpg"} /\ env.mode \in {"RGBA", "P"}

\* faulty variant: only the open is guarded, an error of the encoder leaves
\* the call as an exception
convert_image_SaveUnguarded(env, fmt, size) ==
    IF ~env.openable
    THEN Outcome(TRUE, FALSE, FALSE, FALSE, FALSE, 0, 0, "", NoKwargs)
    ELSE IF env.fails = "convert" /\ NeedsRgb(env, fmt)
    THEN Outcome(TRUE, FALSE, TRUE, FALSE, FALSE, 0, 0, "", NoKwargs)
    ELSE IF env.fails = "resize" /\ ~size.orig
    THEN Outcome(TRUE, FALSE, TRUE, FALSE, FALSE, 0, 0, "", NoKwargs)
    ELSE IF env.fails = "save"
    THEN Outcome(FALSE, FALSE, TRUE, ~size.orig, FALSE, 0, 0, "", NoKwargs)
    ELSE Outcome(TRUE, TRUE, TRUE, ~size.orig, TRUE,
                 IF size.orig THEN env.src.w ELSE size.w,
                 IF size.orig THEN env.src.h ELSE size.h,
                 pil_format(fmt), ConvertKwargs(fmt))

\* converter.py:259-302, convert_image(input_path, output_path, output_format,
\* size): every exception of the body is caught at 300-302 and False returned
convert_image(env, fmt, size) ==
    IF ~env.openable
    THEN Outcome(TRUE, FALSE, FALSE, FALSE, FALSE, 0, 0, "", NoKwargs)
    ELSE IF env.fails = "convert" /\ NeedsRgb(env, fmt)
    THEN Outcome(TRUE, FALSE, TRUE, FALSE, FALSE, 0, 0, "", NoKwargs)
    ELSE IF env.fails = "resize" /\ ~size.orig
    THEN Outcome(TRUE, FALSE, TRUE, FALSE, FALSE, 0, 0, "", NoKwargs)
    ELSE IF env.fails = "save"
    THEN Outcome(TRUE, FALSE, TRUE, ~size.orig, FALSE, 0, 0, "", NoKwargs)
    ELSE Outcome(TRUE, TRUE, TRUE, ~size.orig, TRUE,
                 IF size.orig THEN env.src.w ELSE size.w,
                 IF size.orig THEN env.src.h ELSE size.h,
                 pil_format(fmt), ConvertKwargs(fmt))

\* -------------------------------------------------------------- the signals
\* converter.py:12-15
Progress(n) == [sig |-> "progress", val |-> n, text |-> "", files |-> <<>>]
Status(t) == [sig |-> "status", val |-> 0, text |-> t, files |-> <<>>]
Finished(fs) == [sig |-> "finished", val |-> 0, text |-> "", files |-> fs]
Error(t) == [sig |-> "error", val |-> 0, text |-> t, files |-> <<>>]

\* Signal.emit: the slots live in the interface thread, so the call is queued
Emit(sigs) ==
    /\ signals' = signals \o sigs
    /\ ui_queue' = ui_queue \o sigs

Of(kind) == SelectSeq(signals, LAMBDA s : s.sig = kind)
progress_log == [k \in 1..Len(Of("progress")) |-> Of("progress")[k].val]
status_log == [k \in 1..Len(Of("status")) |-> Of("status")[k].text]
finished_log == [k \in 1..Len(Of("finished")) |-> Of("finished")[k].files]
error_log == [k \in 1..Len(Of("error")) |-> Of("error")[k].text]

\* QThread.isRunning()
isRunning == state = "Running"
Terminal == {"Completed", "Cancelled", "Failed"}

\* the process is alive (see convert_images)
Alive == ui_pc # "aborted"

\* ---------------------------------------------------------- ImageConverter
\* converter.py:37 and 62/107: the name of the output file of a size spec;
\* size_str is taken from the requested width and height, base_name is the
\* stem of the input path as it is
OutputName(size, fmt) == FileName(base_name, size, lower(fmt))

\* converter.py:17-27, ImageConverter.__init__, for an input path whose file
\* name is input_name and whose image has the size src
ImageConverter(input_name, src, szs, fmt, lock, mode, d, q, canOpen) ==
    /\ sizes = szs
    /\ output_format = fmt
    /\ lock_aspect_ratio = lock
    /\ resize_mode = mode
    /\ dpi = d
    /\ quality = q
    /\ base_name = stem(input_name)
    /\ img_size = src
    /\ openable = canOpen
    /\ cancelled = FALSE
    /\ pc = "idle"
    /\ state = "Idle"
    /\ i = 0
    /\ output_files = <<>>
    /\ written = <<>>
    /\ signals = <<>>
    /\ exc_log = <<>>
    /\ img_open = FALSE
    /\ opens = 0
    /\ processed = NoImage
    /\ save_kwargs = NoKwargs
    /\ saves = <<>>
    /\ resizes = <<>>
    /\ cancel_pos = <<>>

\* the source of the single-run specification: photo.png, 400 x 200
DefaultName == <<"p", "h", "o", "t", "o", ".", "p", "n", "g">>
DefaultSource == [w |-> 400, h |-> 200]

\* converter.py:17: the defaults lock_aspect_ratio=True, resize_mode="stretch",
\* dpi=300, quality=90
Construct(szs, fmt, canOpen) ==
    ImageConverter(DefaultName, DefaultSource, szs, fmt, TRUE, "stretch", 300, 90,
                   canOpen)

\* no function of src/utils has been called
NoCall == [fn |-> "none", width |-> Num(TRUE, 0), height |-> Num(TRUE, 0),
           name |-> <<>>, size |-> Original, fmt |-> "png",
           env |-> Env(TRUE, "RGB", [w |-> 0, h |-> 0], "none")]
NoRet == [errors |-> <<>>, filename |-> FileName(<<>>, Original, ""),
          size |-> [w |-> 0, h |-> 0], outcome |-> NoOutcome, safe |-> <<>>]

\* no ImageDownloader has been made
NoDownloader ==
    /\ url = [scheme |-> FALSE, netloc |-> FALSE, suffix |-> <<>>]
    /\ response = [error |-> "none", status_ok |-> TRUE, content_type |-> <<>>,
                   chunks |-> 0, breaks |-> FALSE]
    /\ tmp_writable = TRUE
    /\ temp_file = [exists |-> FALSE, size |-> 0]
    /\ extension = <<>>
    /\ dl_pc = "none"
    /\ dl_signals = <<>>
    /\ dl_wrote = FALSE

\* ensure_unique_filename has not been called
NoUniqueCall ==
    /\ files = {}
    /\ file_path = <<>>
    /\ counter = 0
    /\ euf_pc = "none"
    /\ unique_path = <<>>

\* generate_preview_data has not been called
NoPreview ==
    /\ pv_pc = "none"
    /\ pv_i = 0
    /\ preview_data = <<>>
    /\ pv_exc = <<>>

\* the window as __init__ leaves it, before an image is loaded; no signal is
\* connected or queued
NoWindow ==
    /\ ui_queue = <<>>
    /\ convert_btn = FALSE
    /\ cancel_btn = FALSE
    /\ progress_bar = [visible |-> FALSE, value |-> 0, max |-> 0]
    /\ status_label = ""
    /\ ui_pc = "ready"
    /\ detached = 0
    /\ wait_result = "none"
    /\ jobs = 0
    /\ util_call = NoCall
    /\ util_ret = NoRet
    /\ NoDownloader
    /\ NoUniqueCall
    /\ NoPreview

Init ==
    /\ \E szs \in SeqsUpTo(SizeSpecs, MaxItems), fmt \in Formats, canOpen \in BOOLEAN :
         Construct(szs, fmt, canOpen)
    /\ NoWindow

\* QThread.start(): the worker thread begins run()
Start ==
    /\ pc = "idle"
    /\ pc' = "open"
    /\ state' = "Running"
    /\ UNCHANGED <<jobFields, cancelled, i, output_files, written, signals, exc_log,
                   imgVars, cancel_pos, ui_queue, uiVars>>

\* converter.py:29-31, cancel()
cancel ==
    cancelled' = TRUE

\* cancel() called from another thread while the worker runs
\* (ui_mainwindow.py:1538-1539 calls it only when isRunning())
Cancel ==
    /\ isRunning
    /\ cancel
    /\ cancel_pos' = IF cancelled THEN cancel_pos ELSE <<[pc |-> pc, i |-> i]>>
    /\ UNCHANGED <<jobFields, runVars, ui_queue, uiVars>>

\* what a step of run() leaves alone
runFrame == <<jobFields, cancelled, cancel_pos, uiVars>>

\* faulty variant: the source is opened without a with block and a return
\* leaves it open
with_exit_Leak == img_open' = img_open

\* converter.py:40: control leaves the with block - by the end of the loop, a
\* return or an exception - and the source image is closed
with_exit == img_open' = FALSE

\* faulty variant: a failed open does not leave run()
Open_Unchecked ==
    /\ Alive
    /\ pc = "open"
    /\ pc' = "check"
    /\ i' = 1
    /\ img_open' = TRUE
    /\ opens' = opens + 1
    /\ UNCHANGED <<state, signals, ui_queue>>
    /\ UNCHANGED <<runFrame, output_files, written, exc_log, processed, save_kwargs,
                   saves, resizes>>

\* converter.py:34-48 and 256-257: open the source; a failure is caught by the
\* outer handler
Open ==
    /\ Alive
    /\ pc = "open"
    /\ IF openable
       THEN /\ pc' = "check"
            /\ i' = 1
            /\ img_open' = TRUE
            /\ opens' = opens + 1
            /\ UNCHANGED <<state, signals, ui_queue>>
       ELSE /\ pc' = "done"
            /\ state' = "Failed"
            /\ Emit(<<Error("Conversion failed")>>)
            /\ UNCHANGED <<i, img_open, opens>>
    /\ UNCHANGED <<runFrame, output_files, written, exc_log, processed, save_kwargs,
                   saves, resizes>>

\* faulty variant: an empty result is reported as an error
LoopExit_FailIfEmpty ==
    /\ Alive
    /\ pc = "check"
    /\ i > Len(sizes)
    /\ pc' = "done"
    /\ with_exit
    /\ IF output_files = <<>>
       THEN state' = "Failed" /\ Emit(<<Error("No files were converted")>>)
       ELSE state' = "Completed" /\ Emit(<<Finished(output_files)>>)
    /\ UNCHANGED <<runFrame, i, output_files, written, exc_log, opens, processed,
                   save_kwargs, saves, resizes>>

\* converter.py:50 and 254: the for loop is exhausted, the with block is left
\* and conversion_finished is emitted
LoopExit ==
    /\ Alive
    /\ pc = "check"
    /\ i > Len(sizes)
    /\ pc' = "done"
    /\ with_exit
    /\ state' = "Completed"
    /\ Emit(<<Finished(output_files)>>)
    /\ UNCHANGED <<runFrame, i, output_files, written, exc_log, opens, processed,
                   save_kwargs, saves, resizes>>

\* faulty variant: the flag is not polled
CheckCancelled_NoPoll ==
    /\ Alive
    /\ pc = "check"
    /\ i <= Len(sizes)
    /\ pc' = "begin"
    /\ UNCHANGED <<signals, ui_queue, state>>
    /\ UNCHANGED <<runFrame, i, output_files, written, exc_log, imgVars>>

\* converter.py:52-54: the cancellation check at the head of an iteration
CheckCancelled ==
    /\ Alive
    /\ pc = "check"
    /\ i <= Len(sizes)
    /\ IF cancelled
       THEN /\ Emit(<<Status("Conversion cancelled")>>)
            /\ pc' = "done"
            /\ state' = "Cancelled"
            /\ with_exit
       ELSE /\ pc' = "begin"
            /\ UNCHANGED <<signals, ui_queue, state, img_open>>
    /\ UNCHANGED <<runFrame, i, output_files, written, exc_log, opens, processed,
                   save_kwargs, saves, resizes>>

\* converter.py:56-108: progress_updated(i), the output name, the oversize
\* skip (continue) and the "Processing ..." status
BeginItem ==
    /\ Alive
    /\ pc = "begin"
    /\ IF ~sizes[i].orig /\ Oversize(sizes[i])
       THEN /\ Emit(<<Progress(i - 1)>>)
            /\ i' = i + 1
            /\ pc' = "check"
       ELSE /\ Emit(<<Progress(i - 1), Status("Processing")>>)
            /\ pc' = "resize"
            /\ UNCHANGED i
    /\ UNCHANGED <<runFrame, state, output_files, written, exc_log, imgVars>>

\* faulty variant: the per-item handler reports the error and goes on with the loop
ItemError_NoReturn ==
    /\ Emit(<<Error("Error processing size")>>)
    /\ pc' = "check"
    /\ state' = state
    /\ i' = i + 1
    /\ UNCHANGED img_open

\* converter.py:250-252: the per-item handler emits conversion_error and
\* returns
ItemError ==
    /\ Emit(<<Error("Error processing size")>>)
    /\ pc' = "done"
    /\ state' = "Failed"
    /\ i' = i
    /\ with_exit

\* converter.py:110-212: processed_img and save_kwargs of the item
Prepared ==
    /\ processed' = WithInfoDpi(
           ProcessedImage(img_size, sizes[i], output_format, lock_aspect_ratio,
                          resize_mode),
           output_format, dpi)
    /\ save_kwargs' = SaveKwargs(output_format, quality, dpi, processed')

\* converter.py:78, 113, 132, 162: the call of resize the item makes, with the
\* size it is given, whether it returns or raises; "original" makes one for
\* ICO output of a source above 256 only, and a target height of 0 ends Fit
\* and Crop before the call, in the division of line 119 or 149
ResizeCalled ==
    LET img == ProcessedImage(img_size, sizes[i], output_format, lock_aspect_ratio,
                              resize_mode)
    IN  resizes' =
          IF img.how = "original"
             \/ ResizeMustRaise(sizes[i], output_format, lock_aspect_ratio, resize_mode)
          THEN resizes
          ELSE Append(resizes, [item |-> i, w |-> img.nw, h |-> img.nh])

\* faulty variant: the flag is polled again before the resize
Resize_Preempt ==
    /\ Alive
    /\ pc = "resize"
    /\ IF cancelled
       THEN /\ Emit(<<Status("Conversion cancelled")>>)
            /\ pc' = "done"
            /\ state' = "Cancelled"
            /\ with_exit
            /\ UNCHANGED <<i, exc_log, processed, save_kwargs, resizes>>
       ELSE \E raises \in BOOLEAN :
              IF raises
              THEN /\ exc_log' = Append(exc_log, [item |-> i, stage |-> "resize"])
                   /\ ItemError
                   /\ ResizeCalled
                   /\ UNCHANGED <<processed, save_kwargs>>
              ELSE /\ pc' = "save"
                   /\ Prepared
                   /\ ResizeCalled
                   /\ Emit(<<Status("Saving")>>)
                   /\ UNCHANGED <<state, i, exc_log, img_open>>
    /\ UNCHANGED <<runFrame, output_files, written, opens, saves>>

\* converter.py:64-78 and 110-212: copy or resize, then the save parameters;
\* an exception of the imaging library, or the ZeroDivisionError of a target
\* height of 0, reaches the per-item handler. 220: the "Saving ..." status
Resize ==
    /\ Alive
    /\ pc = "resize"
    /\ \E raises \in BOOLEAN :
         IF raises \/ ResizeMustRaise(sizes[i], output_format, lock_aspect_ratio,
                                      resize_mode)
         THEN /\ exc_log' = Append(exc_log, [item |-> i, stage |-> "resize"])
              /\ ItemError
              /\ ResizeCalled
              /\ UNCHANGED <<processed, save_kwargs>>
         ELSE /\ pc' = "save"
              /\ Prepared
              /\ ResizeCalled
              /\ Emit(<<Status("Saving")>>)
              /\ UNCHANGED <<state, i, exc_log, img_open>>
    /\ UNCHANGED <<runFrame, output_files, written, opens, saves>>

\* faulty variant: progress counts the files written so far
Saved_CountFiles ==
    /\ written' = Append(written, [item |-> i, name |-> OutputName(sizes[i], output_format)])
    /\ output_files' = Append(output_files, OutputName(sizes[i], output_format))
    /\ Emit(<<Progress(Len(output_files) + 1)>>)
    /\ i' = i + 1
    /\ pc' = "check"
    /\ UNCHANGED state

\* converter.py:228/235/241-248: the file is saved, the path appended,
\* progress_updated(i + 1) emitted, and the loop goes to its next iteration
Saved ==
    /\ written' = Append(written, [item |-> i, name |-> OutputName(sizes[i], output_format)])
    /\ output_files' = Append(output_files, OutputName(sizes[i], output_format))
    /\ Emit(<<Progress(i)>>)
    /\ i' = i + 1
    /\ pc' = "check"
    /\ UNCHANGED state

\* processed_img.save(path, format=pil_format, **kwargs): one call, and
\* whether it returned
SaveCall(kwargs, ok) ==
    saves' = Append(saves, [item |-> i, kwargs |-> kwargs, img |-> processed, ok |-> ok])

\* converter.py:223-241: the save; for ICO a failure leads to the retry, for
\* every other format to the per-item handler
Save ==
    /\ Alive
    /\ pc = "save"
    /\ \E raises \in BOOLEAN :
         /\ SaveCall(save_kwargs, ~raises)
         /\ IF ~raises
            THEN /\ Saved
                 /\ UNCHANGED <<exc_log, img_open>>
            ELSE IF pil_format(output_format) = "ICO"
                 THEN /\ exc_log' = Append(exc_log, [item |-> i, stage |-> "ico_save"])
                      /\ pc' = "ico_retry"
                      /\ UNCHANGED <<state, i, output_files, written, signals, ui_queue,
                                     img_open>>
                 ELSE /\ exc_log' = Append(exc_log, [item |-> i, stage |-> "save"])
                      /\ ItemError
                      /\ UNCHANGED <<output_files, written>>
    /\ UNCHANGED <<runFrame, opens, processed, save_kwargs, resizes>>

\* faulty variant: a failed retry reaches the per-item handler
IcoRetry_Fatal ==
    /\ Alive
    /\ pc = "ico_retry"
    /\ \E raises \in BOOLEAN :
         /\ SaveCall(NoKwargs, ~raises)
         /\ IF ~raises
            THEN /\ Saved
                 /\ UNCHANGED <<exc_log, img_open>>
            ELSE /\ exc_log' = Append(exc_log, [item |-> i, stage |-> "ico_retry"])
                 /\ ItemError
                 /\ UNCHANGED <<output_files, written>>
    /\ UNCHANGED <<runFrame, opens, processed, save_kwargs, resizes>>

\* converter.py:232-239: the ICO save without parameters; a second failure
\* skips the size spec (continue)
IcoRetry ==
    /\ Alive
    /\ pc = "ico_retry"
    /\ \E raises \in BOOLEAN :
         /\ SaveCall(NoKwargs, ~raises)
         /\ IF ~raises
            THEN /\ Saved
                 /\ UNCHANGED exc_log
            ELSE /\ exc_log' = Append(exc_log, [item |-> i, stage |-> "ico_retry"])
                 /\ i' = i + 1
                 /\ pc' = "check"
                 /\ UNCHANGED <<state, output_files, written, signals, ui_queue>>
    /\ UNCHANGED <<runFrame, img_open, opens, processed, save_kwargs, resizes>>

Next == Start \/ Cancel \/ Open \/ LoopExit \/ CheckCancelled \/ BeginItem
        \/ Resize \/ Save \/ IcoRetry

Spec == Init /\ [][Next]_vars

\* ------------------------------------------------------------ the window
\* ui_mainwindow.py:952-971: the size checkboxes in their order - "original",
\* the presets, "custom"; the first NumPresets of the seven presets are
\* modelled
Presets == <<Sz(16, 16), Sz(32, 32), Sz(48, 48), Sz(128, 128), Sz(150, 150),
             Sz(192, 192), Sz(512, 512)>>
NumCheckboxes == NumPresets + 2

\* ui_mainwindow.py:443-457, 747: the custom size, 512 x 512 unless the dialog
\* set another one, up to 10000 x 10000
CustomSizes == {Sz(512, 512), Sz(9000, 9000)}

\* ui_mainwindow.py:1555-1560: the size a checked checkbox contributes, k the
\* position of the checkbox among the n checkboxes ("custom" is the last)
KeySize(k, n, custom_size) ==
    IF k = 1 THEN Original
    ELSE IF k = n THEN custom_size
    ELSE Presets[k - 1]

\* ui_mainwindow.py:1551-1560: selected_sizes, in the order of the checkboxes
RECURSIVE selected_from(_, _, _, _)
selected_from(k, n, checked, custom_size) ==
    IF k > n THEN <<>>
    ELSE (IF k \in checked THEN <<KeySize(k, n, custom_size)>> ELSE <<>>)
         \o selected_from(k + 1, n, checked, custom_size)

\* ui_mainwindow.py:1322-1532, generate_preview_data: an oversize spec never
\* gets a preview entry; any other may fail and is skipped
PreviewCanBeNonEmpty(selected_sizes) ==
    \E k \in DOMAIN selected_sizes : ~Oversize(selected_sizes[k])

\* the window with an image loaded (ui_mainwindow.py:1223-1225) and no
\* converter yet
InitUI ==
    /\ sizes = <<>>
    /\ output_format = "png"
    /\ lock_aspect_ratio = FALSE
    /\ resize_mode = "stretch"
    /\ dpi = 300
    /\ quality = 90
    /\ base_name = stem(DefaultName)
    /\ img_size = DefaultSource
    /\ openable = TRUE
    /\ cancelled = FALSE
    /\ pc = "none"
    /\ state = "Idle"
    /\ i = 0
    /\ output_files = <<>>
    /\ written = <<>>
    /\ signals = <<>>
    /\ exc_log = <<>>
    /\ img_open = FALSE
    /\ opens = 0
    /\ processed = NoImage
    /\ save_kwargs = NoKwargs
    /\ saves = <<>>
    /\ resizes = <<>>
    /\ cancel_pos = <<>>
    /\ ui_queue = <<>>
    /\ convert_btn = TRUE
    /\ cancel_btn = FALSE
    /\ progress_bar = [visible |-> FALSE, value |-> 0, max |-> 0]
    /\ status_label = "Loaded"
    /\ ui_pc = "ready"
    /\ detached = 0
    /\ wait_result = "none"
    /\ jobs = 0
    /\ util_call = NoCall
    /\ util_ret = NoRet
    /\ NoDownloader
    /\ NoUniqueCall
    /\ NoPreview

\* ui_mainwindow.py:1573-1579: the preview is empty, a warning, return
PreviewFailed ==
    /\ status_label' = "Generating preview..."
    /\ UNCHANGED <<convVars, ui_queue, convert_btn, cancel_btn, progress_bar, ui_pc,
                   detached, wait_result, jobs, utilVars>>

\* ui_mainwindow.py:1582-1585: the preview dialog is rejected
PreviewRejected ==
    /\ status_label' = "Conversion cancelled"
    /\ UNCHANGED <<convVars, ui_queue, convert_btn, cancel_btn, progress_bar, ui_pc,
                   detached, wait_result, jobs, utilVars>>

\* ui_mainwindow.py:1596: self.converter is rebound while the thread it named
\* is still running. The last reference to a running QThread is dropped: Qt
\* aborts the process when the object is destroyed, or the thread runs on
\* when it is not.
ReplaceConverter ==
    IF isRunning
    THEN \/ ui_pc' = "aborted" /\ UNCHANGED detached
         \/ ui_pc' = ui_pc /\ detached' = detached + 1
    ELSE UNCHANGED <<ui_pc, detached>>

\* ui_mainwindow.py:1587-1610: the progress bar, the buttons, a new
\* ImageConverter (converter.py:17-27) and start(); the aspect lock, the
\* resize mode, the dpi and the quality (1568-1571) are left as the window
\* sets them up (835, 841, 882, 900), the source image is the one loaded
StartConversion(selected_sizes, fmt, canOpen) ==
    /\ jobs < MaxJobs
    /\ jobs' = jobs + 1
    /\ progress_bar' = [visible |-> TRUE, value |-> 0, max |-> Len(selected_sizes)]
    /\ convert_btn' = FALSE
    /\ cancel_btn' = TRUE
    /\ status_label' = "Starting conversion..."
    /\ ReplaceConverter
    /\ sizes' = selected_sizes
    /\ output_format' = fmt
    /\ openable' = canOpen
    /\ cancelled' = FALSE
    /\ pc' = "open"
    /\ state' = "Running"
    /\ i' = 0
    /\ output_files' = <<>>
    /\ written' = <<>>
    /\ signals' = <<>>
    /\ exc_log' = <<>>
    /\ img_open' = FALSE
    /\ opens' = 0
    /\ processed' = NoImage
    /\ save_kwargs' = NoKwargs
    /\ saves' = <<>>
    /\ resizes' = <<>>
    /\ cancel_pos' = <<>>
    /\ UNCHANGED <<lock_aspect_ratio, resize_mode, dpi, quality, base_name, img_size,
                   ui_queue, wait_result, utilVars>>

\* ui_mainwindow.py:1546-1610, convert_images, the slot of convert_btn.clicked
\* (1092); an empty selection (1562-1564) changes nothing
convert_images ==
    /\ ui_pc = "ready"
    /\ convert_btn
    /\ \/ PreviewFailed
       \/ PreviewRejected
       \/ \E checked \in (SUBSET (1..NumCheckboxes)) \ {{}}, custom_size \in CustomSizes,
             fmt \in Formats, canOpen \in BOOLEAN :
            LET selected_sizes == selected_from(1, NumCheckboxes, checked, custom_size) IN
              /\ PreviewCanBeNonEmpty(selected_sizes)
              /\ StartConversion(selected_sizes, fmt, canOpen)

\* ui_mainwindow.py:1536-1540, cancel_conversion, the slot of
\* cancel_btn.clicked (1093), up to the call of wait(3000)
cancel_conversion ==
    /\ ui_pc = "ready"
    /\ cancel_btn
    /\ IF isRunning
       THEN /\ cancel
            /\ ui_pc' = "waiting"
       ELSE UNCHANGED <<cancelled, ui_pc>>
    /\ UNCHANGED <<jobFields, runVars, cancel_pos, ui_queue, convert_btn, cancel_btn,
                   progress_bar, status_label, detached, wait_result, jobs, utilVars>>

\* ui_mainwindow.py:1540-1544: wait(3000) returns - True once the thread has
\* finished, False when the 3000 ms pass first - and the window is reset
WaitReturns ==
    /\ ui_pc = "waiting"
    /\ wait_result' = IF isRunning THEN "timeout" ELSE "finished"
    /\ progress_bar' = [progress_bar EXCEPT !.visible = FALSE]
    /\ convert_btn' = TRUE
    /\ cancel_btn' = FALSE
    /\ status_label' = "Conversion cancelled"
    /\ ui_pc' = "ready"
    /\ UNCHANGED <<convVars, ui_queue, detached, jobs, utilVars>>

\* the event loop of the interface thread takes the next queued signal
Takes(kind) ==
    /\ ui_pc = "ready"
    /\ ui_queue # <<>>
    /\ Head(ui_queue).sig = kind
    /\ ui_queue' = Tail(ui_queue)

\* ui_mainwindow.py:1606: progress_updated -> progress_bar.setValue
setValue ==
    /\ Takes("progress")
    /\ progress_bar' = [progress_bar EXCEPT !.value = Head(ui_queue).val]
    /\ UNCHANGED <<convVars, convert_btn, cancel_btn, status_label, ui_pc, detached,
                   wait_result, jobs, utilVars>>

\* ui_mainwindow.py:1607: status_updated -> status_label.setText
setText ==
    /\ Takes("status")
    /\ status_label' = Head(ui_queue).text
    /\ UNCHANGED <<convVars, convert_btn, cancel_btn, progress_bar, ui_pc, detached,
                   wait_result, jobs, utilVars>>

\* ui_mainwindow.py:1612-1619
on_conversion_finished ==
    /\ Takes("finished")
    /\ progress_bar' = [progress_bar EXCEPT !.visible = FALSE]
    /\ convert_btn' = TRUE
    /\ cancel_btn' = FALSE
    /\ status_label' = "Converted"
    /\ UNCHANGED <<convVars, ui_pc, detached, wait_result, jobs, utilVars>>

\* ui_mainwindow.py:1621-1626
on_conversion_error ==
    /\ Takes("error")
    /\ progress_bar' = [progress_bar EXCEPT !.visible = FALSE]
    /\ convert_btn' = TRUE
    /\ cancel_btn' = FALSE
    /\ status_label' = "Conversion failed"
    /\ UNCHANGED <<convVars, ui_pc, detached, wait_result, jobs, utilVars>>

\* converter.py:33-257: a thread that self.converter no longer names ends its
\* run(); its signals are still connected to the window's slots
DetachedEnds ==
    /\ Alive
    /\ detached > 0
    /\ detached' = detached - 1
    /\ \E last \in {Finished(<<>>), Error("Error processing size"),
                    Status("Conversion cancelled")} :
         ui_queue' = Append(ui_queue, last)
    /\ UNCHANGED <<convVars, convert_btn, cancel_btn, progress_bar, status_label,
                   ui_pc, wait_result, jobs, utilVars>>

NextUI == convert_images \/ cancel_conversion \/ WaitReturns \/ setValue \/ setText
          \/ on_conversion_finished \/ on_conversion_error \/ DetachedEnds
          \/ Open \/ LoopExit \/ CheckCancelled \/ BeginItem \/ Resize \/ Save
          \/ IcoRetry

SpecUI == InitUI /\ [][NextUI]_vars

\* threads executing ImageConverter.run
RunningWorkers == detached + (IF isRunning THEN 1 ELSE 0)

\* ----------------------------------------- one run, the sizes of the window
\* ImageConverter.run on the size specs convert_images builds from the nine
\* checkboxes - "original", the seven presets and "custom" - with at most
\* MaxChecked of them checked. The custom size is the one the dialog returns:
\* 512 x 512 when it is accepted as it opens (ui_mainwindow.py:444, 457).
MaxChecked == 3

DialogSizes == {Sz(512, 512), Sz(300, 200), Sz(16, 16)}

InitSelected ==
    /\ \E checked \in SUBSET (1..(Len(Presets) + 2)), custom_size \in DialogSizes,
          fmt \in Formats :
         /\ checked # {}
         /\ Cardinality(checked) <= MaxChecked
         /\ ImageConverter(DefaultName, DefaultSource,
                           selected_from(1, Len(Presets) + 2, checked, custom_size),
                           fmt, FALSE, "stretch", 300, 90, TRUE)
    /\ NoWindow

SpecSelected == InitSelected /\ [][Next]_vars

\* --------------------------------------------- the preview, then the run
\* convert_images resolves the sizes, the format, the aspect lock, the mode,
\* the dpi and the quality (ui_mainwindow.py:1551-1571), calls
\* generate_preview_data with them (1574) and, when the preview is not empty
\* and the dialog is accepted, constructs the ImageConverter from the same
\* values and starts it (1596-1610).
MaxPreviewItems == 2

PreviewSources == {[w |-> 400, h |-> 200], [w |-> 200, h |-> 300]}
PreviewSizeSpecs == {Original, Sz(100, 100), Sz(16, 16), Sz(1000, 1), Sz(9000, 9000)}
PreviewFormats == {"png", "ico", "webp"}

InitPreview ==
    /\ \E src \in PreviewSources, szs \in SeqsUpTo(PreviewSizeSpecs, MaxPreviewItems),
          fmt \in PreviewFormats, lock \in BOOLEAN, mode \in {"stretch", "fit"} :
         ImageConverter(DefaultName, src, szs, fmt, lock, mode, 300, 90, TRUE)
    /\ ui_queue = <<>>
    /\ convert_btn = TRUE
    /\ cancel_btn = FALSE
    /\ progress_bar = [visible |-> FALSE, value |-> 0, max |-> 0]
    /\ status_label = "Generating preview..."
    /\ ui_pc = "ready"
    /\ detached = 0
    /\ wait_result = "none"
    /\ jobs = 0
    /\ util_call = NoCall
    /\ util_ret = NoRet
    /\ NoDownloader
    /\ NoUniqueCall
    /\ pv_pc = "open"
    /\ pv_i = 0
    /\ preview_data = <<>>
    /\ pv_exc = <<>>

\* what a step of generate_preview_data leaves alone
pvFrame == <<convVars, ui_queue, convert_btn, cancel_btn, progress_bar, status_label,
             ui_pc, detached, wait_result, jobs, util_call, util_ret, dlVars,
             uniqVars>>

\* ui_mainwindow.py:1324-1344 and 1530-1532: the source is opened; a failure
\* is caught by the outer handler and the empty list returned
preview_open ==
    /\ pv_pc = "open"
    /\ IF openable
       THEN pv_pc' = "loop" /\ pv_i' = 1
       ELSE pv_pc' = "done" /\ UNCHANGED pv_i
    /\ UNCHANGED <<pvFrame, preview_data, pv_exc>>

\* ui_mainwindow.py:1522: the entry of a size spec, with the image and the
\* parameters of the save that wrote the file at temp_path
PreviewEntry(k, img, kwargs) ==
    [item |-> k, name |-> OutputName(sizes[k], output_format), img |-> img,
     kwargs |-> kwargs]

\* ui_mainwindow.py:1346-1526: one iteration of the loop of
\* generate_preview_data. The oversize skip (1379-1380), the resize
\* (1349-1437), the save parameters (1445-1483) and the save with the ICO
\* retry (1491-1509) are those of run(); an exception of the item is caught
\* at 1524-1526 and the loop goes on with the next size spec
preview_item ==
    /\ pv_pc = "loop"
    /\ pv_i <= Len(sizes)
    /\ LET img == WithInfoDpi(
                      ProcessedImage(img_size, sizes[pv_i], output_format,
                                     lock_aspect_ratio, resize_mode),
                      output_format, dpi)
           kwargs == SaveKwargs(output_format, quality, dpi, img)
           raised(stages) ==
               pv_exc' = pv_exc \o [n \in DOMAIN stages |->
                                      [item |-> pv_i, stage |-> stages[n]]]
       IN  IF ~sizes[pv_i].orig /\ Oversize(sizes[pv_i])
           THEN UNCHANGED <<preview_data, pv_exc>>
           ELSE \E fails \in {"none", "resize", "save", "ico_retry"} :
                  IF fails = "resize"
                     \/ ResizeMustRaise(sizes[pv_i], output_format, lock_aspect_ratio,
                                        resize_mode)
                  THEN raised(<<"resize">>) /\ UNCHANGED preview_data
                  ELSE IF fails = "none"
                  THEN /\ preview_data' = Append(preview_data,
                                                 PreviewEntry(pv_i, img, kwargs))
                       /\ UNCHANGED pv_exc
                  ELSE IF pil_format(output_format) # "ICO"
                  THEN raised(<<"save">>) /\ UNCHANGED preview_data
                  ELSE IF fails = "save"
                  THEN /\ raised(<<"ico_save">>)
                       /\ preview_data' = Append(preview_data,
                                                 PreviewEntry(pv_i, img, NoKwargs))
                  ELSE raised(<<"ico_save", "ico_retry">>) /\ UNCHANGED preview_data
    /\ pv_i' = pv_i + 1
    /\ UNCHANGED pv_pc
    /\ UNCHANGED pvFrame

\* ui_mainwindow.py:1528: the loop is exhausted, preview_data is returned
preview_return ==
    /\ pv_pc = "loop"
    /\ pv_i > Len(sizes)
    /\ pv_pc' = "done"
    /\ UNCHANGED <<pvFrame, pv_i, preview_data, pv_exc>>

\* ui_mainwindow.py:1322-1532, generate_preview_data
generate_preview_data == preview_open \/ preview_item \/ preview_return

\* ui_mainwindow.py:1576-1610: with a preview that is not empty and a dialog
\* that is accepted the converter is made and started
start_after_preview ==
    /\ pv_pc = "done"
    /\ preview_data # <<>>
    /\ Start

NextPreview == preview_open \/ preview_item \/ preview_return \/ start_after_preview
               \/ Open \/ LoopExit \/ CheckCancelled \/ BeginItem \/ Resize \/ Save
               \/ IcoRetry

SpecPreview == InitPreview /\ [][NextPreview]_vars

\* ------------------------------------------------- one run, any parameters
\* ImageConverter.run with the resize and encode parameters drawn from the
\* values the window can pass: the formats in every spelling, both settings
\* of the aspect lock with each resize mode, dpi in 72..600, quality in 1..100
MaxJobItems == 1

SourceSizes == {[w |-> 400, h |-> 200], [w |-> 900, h |-> 700], [w |-> 7, h |-> 9],
                [w |-> 1, h |-> 49], [w |-> 1000, h |-> 500], [w |-> 300, h |-> 300]}
JobSizeSpecs == {Original, Sz(100, 100), Sz(9, 7), Sz(18, 14), Sz(1000, 500),
                 Sz(256, 256), Sz(257, 100), Sz(300, 300), Sz(10, 49), Sz(1000, 1),
                 Sz(9000, 9000)}
JobFormats == {"png", "JPEG", "jpg", "WebP", "ico"}
ResizeModes == {"stretch", "fit", "crop"}
Qualities == {1, 50, 69, 70, 75, 84, 85, 86, 89, 90, 95, 100}
Dpis == {72, 300, 600}
InputNames == {DefaultName,
               <<"a", ":", "b", ".", "x">>,
               <<" ", "a", ".", "x">>,
               <<"a", "?", ".", "x">>,
               <<"a", ".", "b", ".", "x">>,
               <<".", "x">>}

\* either the geometry varies (source size, size specs, format, aspect lock
\* and mode) or the encoding does (file name, format, quality, dpi)
InitJob ==
    /\ \/ \E src \in SourceSizes, szs \in SeqsUpTo(JobSizeSpecs, MaxJobItems),
             fmt \in JobFormats, lock \in BOOLEAN, mode \in ResizeModes :
            ImageConverter(DefaultName, src, szs, fmt, lock, mode, 300, 90, TRUE)
       \/ \E input_name \in InputNames, size \in {Original, Sz(100, 100)},
             fmt \in JobFormats, q \in Qualities, d \in Dpis :
            ImageConverter(input_name, DefaultSource, <<size>>, fmt, TRUE, "stretch",
                           d, q, TRUE)
    /\ NoWindow

SpecJob == InitJob /\ [][Next]_vars

\* ------------------------------------------------ the functions of src/utils
\* validate_custom_size, create_output_filename and optimize_size_for_format
\* are called by the tests and the demo only (test_converter.py:59, 73, 80;
\* demo.py:64); each action is one call with arguments from the sets below.
Numbers == {IntNum(0 - 10), IntNum(0), IntNum(1), IntNum(512), IntNum(10000),
            IntNum(10001), Num(FALSE, 5), Num(FALSE, 5120), Num(FALSE, 0 - 100),
            Num(FALSE, 100005)}
\* the file names get_safe_filename is given: every string of up to
\* MaxNameLen characters over a letter, the two characters strip removes, "_"
\* and one of the invalid characters
MaxNameLen == 3
NameChars == {"a", " ", ".", "_", "?"}
FileNames == UNION {[1..n -> NameChars] : n \in 0..MaxNameLen}
UtilSizes == {Original, Sz(128, 128), Sz(1000, 500), Sz(500, 1000), Sz(256, 256),
              Sz(257, 257), Sz(300, 7), Sz(32, 32)}

InitUtil ==
    /\ Construct(<<Original>>, "png", TRUE)
    /\ NoWindow

\* what a call of a function of src/utils leaves alone
utilFrame == <<convVars, ui_queue, convert_btn, cancel_btn, progress_bar,
               status_label, ui_pc, detached, wait_result, jobs, dlVars, uniqVars,
               pvVars>>

\* test_converter.py:73 and 80
call_validate_custom_size ==
    /\ \E width \in Numbers, height \in Numbers :
         /\ util_call' = [NoCall EXCEPT !.fn = "validate_custom_size",
                                         !.width = width, !.height = height]
         /\ util_ret' = [NoRet EXCEPT !.errors = validate_custom_size(width, height)]
    /\ UNCHANGED utilFrame

\* test_converter.py:59, demo.py:64
call_create_output_filename ==
    /\ \E input_name \in InputNames, size \in UtilSizes, fmt \in FormatNames :
         /\ util_call' = [NoCall EXCEPT !.fn = "create_output_filename",
                                         !.name = input_name, !.size = size,
                                         !.fmt = fmt]
         /\ util_ret' = [NoRet EXCEPT
                           !.filename = create_output_filename(input_name, size, fmt)]
    /\ UNCHANGED utilFrame

\* resize_options.py:109
call_optimize_size_for_format ==
    /\ \E size \in UtilSizes \ {Original}, fmt \in FormatNames :
         /\ util_call' = [NoCall EXCEPT !.fn = "optimize_size_for_format",
                                         !.size = size, !.fmt = fmt]
         /\ util_ret' = [NoRet EXCEPT
                           !.size = optimize_size_for_format(size.w, size.h, fmt)]
    /\ UNCHANGED utilFrame

\* the sources convert_image is given: the 200 x 200 RGB image of the tests
\* (test_converter.py:17), and images with an alpha channel or a palette
Envs == {Env(canOpen, mode, [w |-> 200, h |-> 200], fails) :
            canOpen \in BOOLEAN, mode \in {"RGB", "RGBA", "P"},
            fails \in {"none", "convert", "resize", "save"}}

\* test_converter.py:62
call_convert_image ==
    /\ \E env \in Envs, size \in UtilSizes, fmt \in FormatNames :
         /\ util_call' = [NoCall EXCEPT !.fn = "convert_image", !.env = env,
                                         !.size = size, !.fmt = fmt]
         /\ util_ret' = [NoRet EXCEPT !.outcome = convert_image(env, fmt, size)]
    /\ UNCHANGED utilFrame

\* file_utils.py:20
call_get_safe_filename ==
    /\ \E filename \in FileNames :
         /\ util_call' = [NoCall EXCEPT !.fn = "get_safe_filename", !.name = filename]
         /\ util_ret' = [NoRet EXCEPT !.safe = get_safe_filename(filename)]
    /\ UNCHANGED utilFrame

NextUtil == call_validate_custom_size \/ call_create_output_filename
            \/ call_optimize_size_for_format \/ call_convert_image
            \/ call_get_safe_filename

SpecUtil == InitUtil /\ [][NextUtil]_vars

\* ---------------------------------------------------------- ImageDownloader
\* str.lower() on a string of characters
upper_case == <<"A", "B", "C", "D", "E", "F", "G", "H", "I", "J", "K", "L", "M",
                "N", "O", "P", "Q", "R", "S", "T", "U", "V", "W", "X", "Y", "Z">>
lower_case == <<"a", "b", "c", "d", "e", "f", "g", "h", "i", "j", "k", "l", "m",
                "n", "o", "p", "q", "r", "s", "t", "u", "v", "w", "x", "y", "z">>
lower_char(c) ==
    IF \E k \in 1..26 : upper_case[k] = c
    THEN lower_case[CHOOSE k \in 1..26 : upper_case[k] = c]
    ELSE c
str_lower(s) == [k \in DOMAIN s |-> lower_char(s[k])]

\* str.startswith
startswith(s, prefix) ==
    Len(s) >= Len(prefix) /\ SubSeq(s, 1, Len(prefix)) = prefix

\* downloader.py:84-95
content_type_map ==
    {<<<<"i", "m", "a", "g", "e", "/", "j", "p", "e", "g">>,
       <<".", "j", "p", "g">>>>,
     <<<<"i", "m", "a", "g", "e", "/", "j", "p", "g">>,
       <<".", "j", "p", "g">>>>,
     <<<<"i", "m", "a", "g", "e", "/", "p", "n", "g">>,
       <<".", "p", "n", "g">>>>,
     <<<<"i", "m", "a", "g", "e", "/", "w", "e", "b", "p">>,
       <<".", "w", "e", "b", "p">>>>,
     <<<<"i", "m", "a", "g", "e", "/", "g", "i", "f">>,
       <<".", "g", "i", "f">>>>,
     <<<<"i", "m", "a", "g", "e", "/", "b", "m", "p">>,
       <<".", "b", "m", "p">>>>,
     <<<<"i", "m", "a", "g", "e", "/", "x", "-", "i", "c", "o", "n">>,
       <<".", "i", "c", "o">>>>,
     <<<<"i", "m", "a", "g", "e", "/", "v", "n", "d", ".", "m", "i", "c", "r", "o", "s", "o", "f", "t", ".", "i", "c", "o", "n">>,
       <<".", "i", "c", "o">>>>,
     <<<<"i", "m", "a", "g", "e", "/", "t", "i", "f", "f">>,
       <<".", "t", "i", "f", "f">>>>,
     <<<<"i", "m", "a", "g", "e", "/", "x", "-", "t", "i", "f", "f">>,
       <<".", "t", "i", "f", "f">>>>}

\* s.split(';')[0]
RECURSIVE before_semicolon(_)
before_semicolon(s) ==
    IF s = <<>> \/ Head(s) = ";" THEN <<>> ELSE <<Head(s)>> \o before_semicolon(Tail(s))

\* str.strip()
RECURSIVE strip_spaces(_)
strip_spaces(s) ==
    IF s # <<>> /\ Head(s) = " " THEN strip_spaces(Tail(s))
    ELSE IF s # <<>> /\ s[Len(s)] = " " THEN strip_spaces(SubSeq(s, 1, Len(s) - 1))
    ELSE s

\* downloader.py:80-97; None is the empty string here
get_extension_from_content_type(content_type) ==
    LET key == strip_spaces(before_semicolon(content_type)) IN
      IF \E e \in content_type_map : e[1] = key
      THEN (CHOOSE e \in content_type_map : e[1] = key)[2]
      ELSE <<>>

\* downloader.py:49
url_extensions ==
    {<<".", "p", "n", "g">>,
     <<".", "j", "p", "g">>,
     <<".", "j", "p", "e", "g">>,
     <<".", "w", "e", "b", "p">>,
     <<".", "g", "i", "f">>,
     <<".", "b", "m", "p">>,
     <<".", "i", "c", "o">>,
     <<".", "t", "i", "f", "f">>}

\* downloader.py:44-50: the extension of the temporary file
Extension(content_type, url_suffix) ==
    IF get_extension_from_content_type(content_type) # <<>>
    THEN get_extension_from_content_type(content_type)
    ELSE IF str_lower(url_suffix) \in url_extensions THEN str_lower(url_suffix)
    ELSE <<".", "j", "p", "g">>

\* downloader.py:13-14
DownloadFinished(ext) == [sig |-> "finished", text |-> "", ext |-> ext]
DownloadError(text) == [sig |-> "error", text |-> text, ext |-> <<>>]

\* what requests.get and the response do: the exception get raises ("none":
\* it returns), the status raise_for_status tests, the content-type header
\* ("" when there is none), the chunks iter_content yields, and whether the
\* connection breaks after them
Response(error, status_ok, content_type, chunks, breaks) ==
    [error |-> error, status_ok |-> status_ok, content_type |-> content_type,
     chunks |-> chunks, breaks |-> breaks]

\* chunks of a response body
MaxChunks == 2

ContentTypes ==
    {<<"i", "m", "a", "g", "e", "/", "p", "n", "g">>,
     <<"I", "m", "a", "g", "e", "/", "P", "N", "G">>,
     <<"i", "m", "a", "g", "e", "/", "p", "n", "g", ";", " ", "q">>,
     <<"i", "m", "a", "g", "e", "/", "x">>,
     <<"I", "M", "A", "G", "E">>,
     <<"t", "e", "x", "t", "/", "h", "t", "m", "l">>,
     <<>>}
UrlSuffixes == {<<>>, <<".", "p", "n", "g">>, <<".", "G", "I", "F">>, <<".", "s", "v", "g">>}

\* downloader.py:16-18, ImageDownloader(url), before start()
InitDownload ==
    /\ Construct(<<Original>>, "png", TRUE)
    /\ ui_queue = <<>>
    /\ convert_btn = FALSE
    /\ cancel_btn = FALSE
    /\ progress_bar = [visible |-> FALSE, value |-> 0, max |-> 0]
    /\ status_label = ""
    /\ ui_pc = "ready"
    /\ detached = 0
    /\ wait_result = "none"
    /\ jobs = 0
    /\ util_call = NoCall
    /\ util_ret = NoRet
    /\ NoUniqueCall
    /\ NoPreview
    /\ \E scheme \in BOOLEAN, netloc \in BOOLEAN, sfx \in UrlSuffixes :
         url = [scheme |-> scheme, netloc |-> netloc, suffix |-> sfx]
    /\ \/ \E error \in {"Timeout", "ConnectionError", "RequestException", "Exception"} :
            response = Response(error, TRUE, <<>>, 0, FALSE)
       \/ \E status_ok \in BOOLEAN, ct \in ContentTypes, chunks \in 0..MaxChunks,
             breaks \in BOOLEAN :
            response = Response("none", status_ok, ct, chunks, breaks)
    /\ tmp_writable \in BOOLEAN
    /\ temp_file \in {[exists |-> FALSE, size |-> 0], [exists |-> TRUE, size |-> 5]}
    /\ extension = <<>>
    /\ dl_pc = "idle"
    /\ dl_signals = <<>>
    /\ dl_wrote = FALSE

\* what a step of ImageDownloader.run leaves alone
dlFrame == <<convVars, ui_queue, convert_btn, cancel_btn, progress_bar, status_label,
             ui_pc, detached, wait_result, jobs, util_call, util_ret, uniqVars,
             pvVars, url, response, tmp_writable>>

\* QThread.start(): the downloader thread begins run()
dl_start ==
    /\ dl_pc = "idle"
    /\ dl_pc' = "validate"
    /\ UNCHANGED <<dlFrame, temp_file, extension, dl_signals, dl_wrote>>

\* run() returns after emitting a signal
dl_return(signal) ==
    /\ dl_signals' = Append(dl_signals, signal)
    /\ dl_pc' = "done"

\* downloader.py:23-26
dl_validate ==
    /\ dl_pc = "validate"
    /\ IF ~url.scheme \/ ~url.netloc
       THEN dl_return(DownloadError("Invalid URL format"))
       ELSE dl_pc' = "request" /\ UNCHANGED dl_signals
    /\ UNCHANGED <<dlFrame, temp_file, extension, dl_wrote>>

\* downloader.py:34-35, with the handlers at 69-76 and 77-78
dl_request ==
    /\ dl_pc = "request"
    /\ CASE response.error = "Timeout" ->
              dl_return(DownloadError("Download timeout - please try again"))
         [] response.error = "ConnectionError" ->
              dl_return(DownloadError("Connection error - check your internet connection"))
         [] response.error = "RequestException" ->
              dl_return(DownloadError("Download failed"))
         [] response.error = "Exception" ->
              dl_return(DownloadError("Unexpected error"))
         [] response.error = "none" /\ ~response.status_ok ->
              dl_return(DownloadError("HTTP error"))
         [] OTHER -> dl_pc' = "check_type" /\ UNCHANGED dl_signals
    /\ UNCHANGED <<dlFrame, temp_file, extension, dl_wrote>>

\* faulty variant: the error is emitted and run() goes on
dl_check_type_NoReturn ==
    /\ dl_pc = "check_type"
    /\ dl_pc' = "write"
    /\ IF ~startswith(str_lower(response.content_type), <<"i", "m", "a", "g", "e", "/">>)
       THEN dl_signals' = Append(dl_signals,
                                 DownloadError("URL does not point to an image file"))
       ELSE UNCHANGED dl_signals
    /\ UNCHANGED <<dlFrame, temp_file, extension, dl_wrote>>

\* downloader.py:38-41
dl_check_type ==
    /\ dl_pc = "check_type"
    /\ IF ~startswith(str_lower(response.content_type), <<"i", "m", "a", "g", "e", "/">>)
       THEN dl_return(DownloadError("URL does not point to an image file"))
       ELSE dl_pc' = "write" /\ UNCHANGED dl_signals
    /\ UNCHANGED <<dlFrame, temp_file, extension, dl_wrote>>

\* downloader.py:43-61: the extension, then the body written chunk by chunk
\* to the file at temp_path, which open(..., 'wb') creates or truncates; an
\* OSError of open is caught at 77, a broken connection at 71 or 75
dl_write ==
    /\ dl_pc = "write"
    /\ extension' = Extension(str_lower(response.content_type), url.suffix)
    /\ IF ~tmp_writable
       THEN /\ dl_return(DownloadError("Unexpected error"))
            /\ UNCHANGED <<temp_file, dl_wrote>>
       ELSE /\ dl_wrote' = TRUE
            /\ temp_file' = [exists |-> TRUE, size |-> response.chunks]
            /\ IF response.breaks
               THEN dl_return(DownloadError("Connection error - check your internet connection"))
               ELSE dl_pc' = "verify" /\ UNCHANGED dl_signals
    /\ UNCHANGED dlFrame

\* downloader.py:63-67
dl_verify ==
    /\ dl_pc = "verify"
    /\ IF temp_file.exists /\ temp_file.size > 0
       THEN dl_return(DownloadFinished(extension))
       ELSE dl_return(DownloadError("Failed to save downloaded image"))
    /\ UNCHANGED <<dlFrame, temp_file, extension, dl_wrote>>

\* downloader.py:20-78, ImageDownloader.run
NextDownload == dl_start \/ dl_validate \/ dl_request \/ dl_check_type \/ dl_write
                \/ dl_verify

SpecDownload == InitDownload /\ [][NextDownload]_vars

\* ------------------------------------------------- ensure_unique_filename
\* pathlib: PurePath.suffix of a file name
suffix(name) ==
    LET k == rfind_dot(name, Len(name)) IN
      IF 1 < k /\ k < Len(name) THEN SubSeq(name, k, Len(name)) ELSE <<>>

\* str(n) for an integer n >= 0
RECURSIVE decimal(_)
decimal(n) ==
    LET digit == <<"0", "1", "2", "3", "4", "5", "6", "7", "8", "9">>[(n % 10) + 1]
    IN  IF n < 10 THEN <<digit>> ELSE Append(decimal(n \div 10), digit)

\* file_utils.py:52: f"{path.stem}_{counter}{path.suffix}"
new_name(name, n) == stem(name) \o <<"_">> \o decimal(n) \o suffix(name)

\* numbered names that exist at the start of a call, at most
MaxExisting == 3

\* the arguments of the calls, and the names the directory may hold
UniquePaths == {<<"a", ".", "x">>, <<"a">>, <<".", "x">>, <<"a", ".", "b", ".", "x">>}
OtherFile == <<"b", ".", "x">>

InitUnique ==
    /\ Construct(<<Original>>, "png", TRUE)
    /\ ui_queue = <<>>
    /\ convert_btn = FALSE
    /\ cancel_btn = FALSE
    /\ progress_bar = [visible |-> FALSE, value |-> 0, max |-> 0]
    /\ status_label = ""
    /\ ui_pc = "ready"
    /\ detached = 0
    /\ wait_result = "none"
    /\ jobs = 0
    /\ util_call = NoCall
    /\ util_ret = NoRet
    /\ NoDownloader
    /\ NoPreview
    /\ file_path \in UniquePaths
    /\ files \in SUBSET ({file_path, OtherFile}
                         \cup {new_name(file_path, n) : n \in 1..MaxExisting})
    /\ counter = 0
    /\ euf_pc = "start"
    /\ unique_path = <<>>

\* what a step of ensure_unique_filename leaves alone
uniqFrame == <<convVars, ui_queue, convert_btn, cancel_btn, progress_bar,
               status_label, ui_pc, detached, wait_result, jobs, util_call, util_ret,
               dlVars, pvVars, files, file_path>>

\* file_utils.py:44-50: the path itself when it does not exist
euf_check ==
    /\ euf_pc = "start"
    /\ IF file_path \notin files
       THEN /\ unique_path' = file_path
            /\ euf_pc' = "done"
            /\ UNCHANGED counter
       ELSE /\ counter' = 1
            /\ euf_pc' = "loop"
            /\ UNCHANGED unique_path
    /\ UNCHANGED uniqFrame

\* faulty variant: the numbered name is returned without the test for its
\* existence
euf_loop_NoTest ==
    /\ euf_pc = "loop"
    /\ unique_path' = new_name(file_path, counter)
    /\ euf_pc' = "done"
    /\ UNCHANGED counter
    /\ UNCHANGED uniqFrame

\* file_utils.py:51-58: one iteration of the while loop
euf_loop ==
    /\ euf_pc = "loop"
    /\ IF new_name(file_path, counter) \notin files
       THEN /\ unique_path' = new_name(file_path, counter)
            /\ euf_pc' = "done"
            /\ UNCHANGED counter
       ELSE /\ counter' = counter + 1
            /\ UNCHANGED <<euf_pc, unique_path>>
    /\ UNCHANGED uniqFrame

\* file_utils.py:40-58, ensure_unique_filename
ensure_unique_filename == euf_check \/ euf_loop

\* a call that has begun runs on: nothing but the loop itself keeps it from
\* its next step
SpecUnique == InitUnique /\ [][ensure_unique_filename]_vars
              /\ WF_vars(ensure_unique_filename)

\* ============================================================ properties
InFlight == {"begin", "resize", "save", "ico_retry"}

\* the exception ends in the per-item handler (resize, or save of a non-ICO
\* format)
ReachesItemHandler(e) == e.stage \in {"resize", "save"}
NoHandlerExc == \A k \in DOMAIN exc_log : ~ReachesItemHandler(exc_log[k])

\* a size spec the claims call oversize
TooLarge(s) == ~s.orig /\ (s.w > 8000 \/ s.h > 8000)
NotTooLarge == SelectSeq(sizes, LAMBDA s : ~TooLarge(s))
WrittenNames == [k \in DOMAIN written |-> written[k].name]

\* C1: an exception in the resize or the encode of one size spec is
\* non-fatal - the run does not end Failed and emits no conversion_error, it
\* goes on to the next size spec.
C1_PerItemFailureNonFatal ==
    exc_log # <<>> => (state # "Failed" /\ error_log = <<>>)

\* C1, what run() does instead: an exception in the resize of a size spec, or
\* in its save for a format other than ICO, reaches the per-item handler:
\* conversion_error is emitted once, the run ends Failed at that item,
\* conversion_finished is never emitted and no later size spec is processed;
\* the files of earlier size specs stay. An ICO save failure alone never ends
\* the run.
C1_PerItemFailureFatal ==
    /\ \A k \in DOMAIN exc_log :
         ReachesItemHandler(exc_log[k]) =>
            /\ k = Len(exc_log)
            /\ state = "Failed" /\ pc = "done"
            /\ Len(error_log) = 1 /\ finished_log = <<>>
            /\ i = exc_log[k].item
            /\ \A r \in DOMAIN written : written[r].item < exc_log[k].item
            /\ \A p \in DOMAIN progress_log : progress_log[p] < exc_log[k].item
    /\ (state = "Failed" /\ openable) => ~NoHandlerExc
    /\ (output_format = "ico") =>
         \A k \in DOMAIN exc_log : exc_log[k].stage # "save"

C1_FatalReached ==
    /\ state = "Failed" /\ Len(sizes) = 3
    /\ exc_log = <<[item |-> 2, stage |-> "save"]>>
    /\ Len(written) = 1 /\ written[1].item = 1

\* C2: on an openable source whose size specs raise no exception, every size
\* spec with width > 8000 or height > 8000 is skipped without a file and
\* without conversion_error, and a run that is not cancelled ends Completed
\* with exactly one path per remaining size spec, in the order of the sequence.
C2_OversizeSkipped ==
    /\ \A r \in DOMAIN written : ~TooLarge(sizes[written[r].item])
    /\ (pc = "done" /\ openable /\ exc_log = <<>> /\ state # "Cancelled") =>
          /\ state = "Completed"
          /\ error_log = <<>>
          /\ Len(output_files) = Len(NotTooLarge)
          /\ output_files =
               [k \in DOMAIN NotTooLarge |-> OutputName(NotTooLarge[k], output_format)]
          /\ WrittenNames = output_files
          /\ finished_log = <<output_files>>

C2_Witness ==
    /\ sizes = <<Sz(100, 100), Sz(9000, 9000), Sz(50, 50)>>
    /\ state = "Completed"
    /\ Len(output_files) = 2
    /\ error_log = <<>>

\* C3: when the cancel flag is set at the check before item i, the run ends
\* Cancelled in that step: nothing is written for item i or later, neither
\* conversion_finished nor conversion_error is emitted, and the files of the
\* items before i stay. A cancel() issued while item c is being processed, c
\* not the last item, leaves at most c files and never a Completed run.
C3_CancelledAtCheck ==
    /\ [][(pc = "check" /\ i <= Len(sizes) /\ cancelled /\ pc' # "check") =>
            (state' = "Cancelled" /\ pc' = "done"
             /\ written' = written /\ output_files' = output_files
             /\ finished_log' = <<>> /\ error_log' = <<>>)]_vars
    /\ [](state = "Cancelled" =>
            /\ pc = "done" /\ cancelled
            /\ finished_log = <<>> /\ error_log = <<>>
            /\ Len(written) <= i - 1
            /\ \A r \in DOMAIN written : written[r].item < i)
    /\ []((cancel_pos # <<>> /\ cancel_pos[1].i < Len(sizes)) =>
            /\ state # "Completed"
            /\ Len(written) <= cancel_pos[1].i)

C3_Witness ==
    /\ state = "Cancelled" /\ Len(sizes) = 3
    /\ cancel_pos = <<[pc |-> "save", i |-> 1]>>
    /\ i = 2 /\ Len(written) = 1

\* C4: the cancel flag is read only by the check at the head of an iteration:
\* a step of an item already in flight never ends the run Cancelled, and with
\* the flag set it does what it does without it - an item that raises no
\* exception goes on to its save, and the save writes the file, appends the
\* path and emits progress i+1 before the next check.
C4_Step ==
    /\ state' = "Cancelled" => pc = "check"
    /\ (cancelled /\ pc \in InFlight /\ pc' # pc /\ exc_log' = exc_log) =>
         CASE pc = "begin" -> pc' = IF TooLarge(sizes[i]) THEN "check" ELSE "resize"
           [] pc = "resize" -> pc' = "save" /\ state' = "Running"
           [] OTHER ->
                /\ written' = Append(written,
                       [item |-> i, name |-> OutputName(sizes[i], output_format)])
                /\ Len(output_files') = Len(output_files) + 1
                /\ progress_log' = Append(progress_log, i)
                /\ pc' = "check" /\ state' = "Running"

C4_NotPreemptive == [][C4_Step]_vars

C4_Witness ==
    /\ state = "Cancelled" /\ Len(sizes) = 2
    /\ cancel_pos = <<[pc |-> "resize", i |-> 1]>>
    /\ Len(written) = 1 /\ written[1].item = 1
    /\ progress_log = <<0, 1>>

\* C5: a run goes Idle -> Running -> exactly one of Completed, Cancelled,
\* Failed; at most one terminal signal is emitted (conversion_finished exactly
\* when Completed, conversion_error exactly when Failed), and once the run is
\* terminal no signal is emitted and no file is written.
C5_OneTerminal ==
    /\ [](/\ Len(finished_log) + Len(error_log) <= 1
          /\ (state = "Completed" <=> Len(finished_log) = 1)
          /\ (state = "Failed" <=> Len(error_log) = 1)
          /\ (state \in Terminal <=> pc = "done"))
    /\ [][state' # state =>
            ((state = "Idle" /\ state' = "Running")
              \/ (state = "Running" /\ state' \in Terminal))]_vars
    /\ [][(state \in Terminal) => (signals' = signals /\ written' = written)]_vars

C5_Witness ==
    /\ state = "Failed" /\ Len(written) = 2
    /\ Len(error_log) = 1 /\ finished_log = <<>>
    /\ cancelled

\* C6: when the source cannot be opened the run ends Failed: one
\* conversion_error, no conversion_finished, no progress value and no file.
C6_UnopenableFails ==
    ~openable =>
        /\ progress_log = <<>> /\ written = <<>> /\ output_files = <<>>
        /\ finished_log = <<>>
        /\ state # "Completed" /\ state # "Cancelled"
        /\ (pc \notin {"idle", "open"}) =>
              (pc = "done" /\ state = "Failed" /\ error_log = <<"Conversion failed">>)
        /\ (pc \in {"idle", "open"}) => error_log = <<>>

C6_Witness ==
    ~openable /\ state = "Failed" /\ cancelled /\ Len(sizes) = 2

\* C7: a run that exhausts its size specs without a fatal error and without
\* cancellation ends Completed, also when nothing was written: it emits
\* conversion_finished with the (possibly empty) list and no conversion_error.
C7_CompletedEvenIfEmpty ==
    (pc = "done" /\ openable /\ NoHandlerExc /\ state # "Cancelled") =>
        /\ state = "Completed"
        /\ finished_log = <<output_files>>
        /\ error_log = <<>>
        /\ WrittenNames = output_files

C7_Witness ==
    /\ state = "Completed" /\ finished_log = << <<>> >> /\ written = <<>>
    /\ sizes = <<Sz(9000, 9000), Sz(100, 100)>>
    /\ exc_log = <<[item |-> 2, stage |-> "ico_save"], [item |-> 2, stage |-> "ico_retry"]>>

\* C8: the values emitted on progress_updated never decrease, and each lies
\* between 0 and the number of size specs.
C8_ProgressMonotonic ==
    /\ \A k \in DOMAIN progress_log : progress_log[k] \in 0..Len(sizes)
    /\ \A k \in 1..(Len(progress_log) - 1) : progress_log[k] <= progress_log[k + 1]

C8_Witness ==
    /\ pc = "done" /\ Len(sizes) = 3
    /\ progress_log = <<0, 1, 1, 2, 3>>
    /\ exc_log # <<>>

\* C9 (as claimed): at most one worker thread runs at any time, and while the
\* worker the window started is running the convert button stays disabled -
\* also after a cancel request whose worker has not stopped yet.
C9_OneWorker ==
    /\ isRunning => ~convert_btn
    /\ RunningWorkers <= 1

\* C10 (as claimed): when wait(3000) returns because the timeout expired, with
\* the worker still running, the window reports it as a condition of its own:
\* it does not show what it shows after a cancellation that completed.
C10_TimeoutStep ==
    (ui_pc = "waiting" /\ ui_pc' = "ready" /\ wait_result' = "timeout") =>
        <<status_label', convert_btn', cancel_btn', progress_bar'.visible>>
            # <<"Conversion cancelled", TRUE, FALSE, FALSE>>

C10_TimeoutReported == [][C10_TimeoutStep]_vars

\* C11: a run opens the source image at most once, the image is open only
\* while the run is Running, and every run that has ended - Completed,
\* Failed by a per-item error, Cancelled, or Failed because the open itself
\* failed - has left the source closed.
C11_SourceClosed ==
    /\ opens <= 1
    /\ img_open => (state = "Running" /\ opens = 1)
    /\ (state \in Terminal) => ~img_open
    /\ (state \in Terminal) => (opens = IF openable THEN 1 ELSE 0)

C11_Witness ==
    /\ state = "Failed" /\ opens = 1 /\ ~img_open
    /\ exc_log = <<[item |-> 2, stage |-> "resize"]>>
    /\ Len(written) = 1

\* the processed image of the current item exists and is about to be saved
AtSave == pc \in {"save", "ico_retry"}
IsIco == lower(output_format) = "ico"

\* the ICO limit as the claims state it: a size with a side above 256 gets its
\* longer side set to 256 and its shorter side to the integer part of
\* shorter * 256 / longer
ClaimedIco(w, h) ==
    IF w <= 256 /\ h <= 256 THEN <<w, h>>
    ELSE IF w >= h THEN <<256, (h * 256) \div w>>
    ELSE <<(w * 256) \div h, 256>>

StretchCase == AtSave /\ ~sizes[i].orig /\ (~lock_aspect_ratio \/ resize_mode = "stretch")

\* C12 (as claimed): whenever lock_aspect_ratio is false or resize_mode is
\* stretch, the processed image of an explicit size spec (w, h) has exactly
\* the dimensions (w, h), for every output format.
C12_StretchExact ==
    StretchCase => <<processed.w, processed.h>> = <<sizes[i].w, sizes[i].h>>

\* C12 (amended): whenever lock_aspect_ratio is false or resize_mode is
\* stretch, the processed image of an explicit size spec (w, h) that is not
\* skipped is the source resized to the whole image, with no canvas and no
\* offset, and its dimensions are exactly (w, h) for every output format
\* other than ICO and for ICO with w <= 256 and h <= 256; for ICO with a side
\* above 256 they are the dimensions of the ICO limit.
C12_StretchExactUpToIco ==
    StretchCase =>
        /\ <<processed.w, processed.h>> =
              IF IsIco THEN ClaimedIco(sizes[i].w, sizes[i].h)
              ELSE <<sizes[i].w, sizes[i].h>>
        /\ <<processed.nw, processed.nh>> = <<processed.w, processed.h>>
        /\ <<processed.x, processed.y>> = <<0, 0>>
        /\ (~IsIco \/ (sizes[i].w <= 256 /\ sizes[i].h <= 256)) =>
              <<processed.w, processed.h>> = <<sizes[i].w, sizes[i].h>>

C12_Witness ==
    /\ pc = "save" /\ ~lock_aspect_ratio /\ resize_mode = "crop"
    /\ img_size = [w |-> 400, h |-> 200] /\ sizes[i] = Sz(9, 7)
    /\ lower(output_format) = "jpeg"
    /\ <<processed.w, processed.h>> = <<9, 7>>

\* the size the resize works towards: the size spec, after the ICO limit
Target == IF IsIco THEN ClaimedIco(sizes[i].w, sizes[i].h) ELSE <<sizes[i].w, sizes[i].h>>

FitCase == AtSave /\ ~sizes[i].orig /\ lock_aspect_ratio /\ resize_mode = "fit"

\* C13: in Fit mode, for a source (W, H) and a target (w, h), the resized
\* image (nw, nh) never exceeds the target box - nw = w when W/H > w/h and
\* nh = h otherwise - the canvas is exactly (w, h), and the paste offset is
\* ((w - nw) div 2, (h - nh) div 2) with both components >= 0; (400, 200)
\* fitted into (100, 100) is resized to (100, 50) and pasted at (0, 25).
C13_FitInsideCentred ==
    FitCase =>
        LET w == Target[1]
            h == Target[2]
        IN  /\ <<processed.w, processed.h>> = <<w, h>>
            /\ processed.nw <= w /\ processed.nh <= h
            /\ IF img_size.w * h > w * img_size.h
               THEN processed.nw = w
               ELSE processed.nh = h
            /\ processed.x = (w - processed.nw) \div 2
            /\ processed.y = (h - processed.nh) \div 2
            /\ processed.x >= 0 /\ processed.y >= 0
            /\ (img_size = [w |-> 400, h |-> 200] /\ <<w, h>> = <<100, 100>>) =>
                  /\ <<processed.nw, processed.nh>> = <<100, 50>>
                  /\ <<processed.x, processed.y>> = <<0, 25>>

C13_Witness ==
    /\ FitCase
    /\ img_size = [w |-> 400, h |-> 200] /\ sizes[i] = Sz(100, 100)
    /\ <<processed.nw, processed.nh, processed.x, processed.y>> = <<100, 50, 0, 25>>

CropCase == AtSave /\ ~sizes[i].orig /\ lock_aspect_ratio /\ resize_mode = "crop"

\* C14 (as claimed): in Crop mode, for a source (W, H) and a target (w, h),
\* the scaled image (nw, nh) covers the target box (nw >= w and nh >= h), the
\* crop window of size (w, h) at ((nw - w) div 2, (nh - h) div 2) lies
\* entirely inside the scaled image, and the output is exactly (w, h);
\* (400, 200) cropped to (100, 100) is scaled to (200, 100) and cropped at
\* offset (50, 0).
C14_CropCovers ==
    CropCase =>
        LET w == Target[1]
            h == Target[2]
        IN  /\ <<processed.w, processed.h>> = <<w, h>>
            /\ processed.nw >= w /\ processed.nh >= h
            /\ processed.x = (processed.nw - w) \div 2
            /\ processed.y = (processed.nh - h) \div 2
            /\ processed.x >= 0 /\ processed.x + w <= processed.nw
            /\ processed.y >= 0 /\ processed.y + h <= processed.nh
            /\ (img_size = [w |-> 400, h |-> 200] /\ <<w, h>> = <<100, 100>>) =>
                  /\ <<processed.nw, processed.nh>> = <<200, 100>>
                  /\ <<processed.x, processed.y>> = <<50, 0>>

\* C15: for ICO output, a size spec with a side above 256 that is processed
\* is reduced so that its longer side is exactly 256 and its shorter side is
\* the integer part of shorter * 256 / longer (the aspect ratio kept within
\* one pixel); the same limit is applied to the source size for "original";
\* (1000, 500) becomes (256, 128); a size with both sides <= 256 is left as it
\* is; optimize_size_for_format gives the same size.
C15_IcoClamp ==
    (AtSave /\ IsIco) =>
        LET req == IF sizes[i].orig THEN img_size ELSE [w |-> sizes[i].w, h |-> sizes[i].h]
            long == IF req.w >= req.h THEN req.w ELSE req.h
            short == IF req.w >= req.h THEN req.h ELSE req.w
            plong == IF req.w >= req.h THEN processed.w ELSE processed.h
            pshort == IF req.w >= req.h THEN processed.h ELSE processed.w
        IN  /\ long > 256 =>
                 /\ plong = 256
                 /\ pshort * long <= short * 256
                 /\ short * 256 < (pshort + 1) * long
                 /\ processed.w <= 256 /\ processed.h <= 256
            /\ long <= 256 => <<processed.w, processed.h>> = <<req.w, req.h>>
            /\ req = [w |-> 1000, h |-> 500] => <<processed.w, processed.h>> = <<256, 128>>
            /\ optimize_size_for_format(req.w, req.h, output_format)
                 = [w |-> processed.w, h |-> processed.h]

C15_Witness ==
    /\ pc = "save" /\ IsIco /\ sizes[i] = Sz(1000, 500)
    /\ lock_aspect_ratio /\ resize_mode = "fit"
    /\ <<processed.w, processed.h>> = <<256, 128>>

\* the same limit on the source size of an "original" size spec
C15_WitnessOriginal ==
    /\ pc = "save" /\ IsIco /\ sizes[i] = Original
    /\ img_size = [w |-> 900, h |-> 700]
    /\ <<processed.w, processed.h>> = <<256, 199>>

\* the k-th save call is the first one of its item
FirstAttempt(k) == k = 1 \/ saves[k - 1].item # saves[k].item

\* C16, the step of the failed retry: the size spec is skipped - no path is
\* appended, no file recorded, no conversion_error emitted - and the run goes
\* on, still Running, to the check before the next size spec.
C16_RetryFailedStep ==
    (pc = "ico_retry" /\ pc' # "ico_retry" /\ exc_log' # exc_log) =>
        /\ pc' = "check" /\ i' = i + 1 /\ state' = "Running"
        /\ output_files' = output_files /\ written' = written
        /\ error_log' = error_log

\* C16: for ICO output the first save of an item passes sizes=[(width,
\* height)] exactly when both dimensions of the image are <= 256; when that
\* save fails the save is tried once more without the hint; when the retry
\* fails too the size spec is skipped and the job continues with the next
\* size spec.
C16_IcoFallback ==
    /\ [](pil_format(output_format) = "ICO" =>
            /\ \A k \in DOMAIN saves :
                 IF FirstAttempt(k)
                 THEN /\ ("sizes" \in saves[k].kwargs.keys)
                           <=> (saves[k].img.w <= 256 /\ saves[k].img.h <= 256)
                      /\ ("sizes" \in saves[k].kwargs.keys) =>
                            saves[k].kwargs.sizes = <<saves[k].img.w, saves[k].img.h>>
                      /\ ~saves[k].ok =>
                            IF k = Len(saves) THEN pc = "ico_retry" /\ i = saves[k].item
                            ELSE saves[k + 1].item = saves[k].item
                 ELSE /\ saves[k].kwargs.keys = {}
                      /\ ~saves[k - 1].ok /\ FirstAttempt(k - 1)
                      /\ saves[k].img = saves[k - 1].img
            /\ \A k \in DOMAIN exc_log :
                 exc_log[k].stage = "ico_retry" =>
                    /\ \A r \in DOMAIN written : written[r].item # exc_log[k].item
                    /\ (state = "Failed" /\ openable) => ~NoHandlerExc)
    /\ [][C16_RetryFailedStep]_vars

C16_Witness ==
    /\ state = "Completed" /\ output_format = "ico" /\ Len(sizes) = 2
    /\ exc_log = <<[item |-> 1, stage |-> "ico_save"], [item |-> 1, stage |-> "ico_retry"]>>
    /\ Len(saves) = 3 /\ saves[3].ok /\ "sizes" \in saves[3].kwargs.keys
    /\ Len(output_files) = 1 /\ written[1].item = 2
    /\ error_log = <<>>

\* C17: for PNG output the compression level depends on the quality alone -
\* 1 when quality >= 90, 6 when 70 <= quality < 90, 9 when quality < 70
\* (95 -> 1, 75 -> 6, 50 -> 9; 90 -> 1 and 70 -> 6) - whatever the dpi, the
\* size spec and the file name are.
C17_PngCompressLevel ==
    (AtSave /\ lower(output_format) = "png") =>
        /\ quality \in 1..100
        /\ "compress_level" \in save_kwargs.keys
        /\ quality >= 90 => save_kwargs.compress_level = 1
        /\ (70 <= quality /\ quality < 90) => save_kwargs.compress_level = 6
        /\ quality < 70 => save_kwargs.compress_level = 9
        /\ quality = 95 => save_kwargs.compress_level = 1
        /\ quality = 75 => save_kwargs.compress_level = 6
        /\ quality = 50 => save_kwargs.compress_level = 9
        /\ \A k \in DOMAIN saves :
             saves[k].kwargs.compress_level = save_kwargs.compress_level

C17_Witness ==
    /\ pc = "check" /\ lower(output_format) = "png" /\ quality = 70 /\ dpi = 72
    /\ Len(saves) = 1 /\ saves[1].ok /\ saves[1].kwargs.compress_level = 6

\* C18: for WebP output the quality passed to the encoder is min(quality,
\* 85) for every quality in 1..100 (95 -> 85), and no dpi is passed: neither
\* as a keyword argument of save nor in the info of the image.
C18_WebpQualityCap ==
    (AtSave /\ lower(output_format) = "webp") =>
        /\ quality \in 1..100
        /\ "quality" \in save_kwargs.keys
        /\ save_kwargs.quality = IF quality <= 85 THEN quality ELSE 85
        /\ quality = 95 => save_kwargs.quality = 85
        /\ "dpi" \notin save_kwargs.keys
        /\ processed.info_dpi = 0
        /\ \A k \in DOMAIN saves :
             /\ saves[k].kwargs = save_kwargs
             /\ saves[k].img.info_dpi = 0

C18_Witness ==
    /\ pc = "check" /\ output_format = "WebP" /\ quality = 95 /\ dpi = 600
    /\ Len(saves) = 1 /\ saves[1].ok /\ saves[1].kwargs.quality = 85
    /\ "dpi" \notin saves[1].kwargs.keys

\* the sanitized stem as the claim states it: every character of <>:"/\|?*
\* replaced by "_"
C19_Sanitized(s) ==
    [k \in DOMAIN s |->
        IF s[k] \in {"<", ">", ":", "\"", "/", "\\", "|", "?", "*"} THEN "_" ELSE s[k]]

C19_Claimed(base, size, fmt) ==
    [stem |-> C19_Sanitized(base), sized |-> ~size.orig,
     w |-> IF size.orig THEN 0 ELSE size.w, h |-> IF size.orig THEN 0 ELSE size.h,
     ext |-> CASE fmt \in {"PNG", "png"} -> "png"
               [] fmt \in {"JPEG", "jpeg"} -> "jpeg"
               [] fmt \in {"JPG", "jpg"} -> "jpg"
               [] fmt \in {"WebP", "webp"} -> "webp"
               [] fmt \in {"ICO", "ico"} -> "ico"]

\* C19 (as claimed): the output file name is {base_stem}.{ext} for the
\* Original size spec and {base_stem}_{w}x{h}.{ext} for an explicit (w, h),
\* with ext the lower-cased format name and base_stem the stem of the source
\* file name with every invalid character replaced by "_" - for the names
\* run() writes and for create_output_filename.
C19_OutputNames ==
    /\ \A r \in DOMAIN written :
         written[r].name = C19_Claimed(base_name, sizes[written[r].item], output_format)
    /\ util_call.fn = "create_output_filename" =>
         util_ret.filename = C19_Claimed(stem(util_call.name), util_call.size, util_call.fmt)

\* an integer in [1, 10000]
C20_Valid(x) == x.isint /\ 10 <= x.tenths /\ x.tenths <= 100000

\* C20: validate_custom_size(width, height) returns the empty list exactly
\* when width and height are both integers in [1, 10000]; a value that is
\* <= 0, not an integer or > 10000 yields exactly one error, which names its
\* dimension, and the two dimensions are checked independently: the width
\* error, if any, comes first, the height error is there whatever the width
\* is, and two bad values give two errors.
C20_ValidateCustomSize ==
    util_call.fn = "validate_custom_size" =>
        LET werr == {"Width must be a positive integer",
                     "Width cannot exceed 10,000 pixels"}
            herr == {"Height must be a positive integer",
                     "Height cannot exceed 10,000 pixels"}
            errs == util_ret.errors
            bad == (IF C20_Valid(util_call.width) THEN 0 ELSE 1)
                   + (IF C20_Valid(util_call.height) THEN 0 ELSE 1)
        IN  /\ (errs = <<>>) <=> (C20_Valid(util_call.width) /\ C20_Valid(util_call.height))
            /\ Len(errs) = bad
            /\ C20_Valid(util_call.width) <=> (\A k \in DOMAIN errs : errs[k] \notin werr)
            /\ C20_Valid(util_call.height) <=> (\A k \in DOMAIN errs : errs[k] \notin herr)
            /\ \A k \in DOMAIN errs : errs[k] \in werr \cup herr
            /\ (util_call.width = IntNum(512) /\ util_call.height = IntNum(512)) =>
                  errs = <<>>
            /\ (util_call.width = IntNum(0 - 10) /\ util_call.height = IntNum(0)) =>
                  Len(errs) = 2

C20_Witness ==
    /\ util_call.fn = "validate_custom_size"
    /\ util_call.width = Num(FALSE, 5120) /\ util_call.height = IntNum(10001)
    /\ util_ret.errors = <<"Width must be a positive integer",
                           "Height cannot exceed 10,000 pixels">>

\* the operation of the call that raises, if one does: the one its
\* environment makes fail, when the call gets that far
C21_Fails ==
    LET env == util_call.env
        jpeg == util_call.fmt \in {"JPEG", "jpeg", "JPG", "jpg"}
    IN  \/ ~env.openable
        \/ env.fails = "convert" /\ jpeg /\ env.mode \in {"RGBA", "P"}
        \/ env.fails = "resize" /\ ~util_call.size.orig
        \/ env.fails = "save"

\* C21: convert_image never raises to its caller; it returns True exactly
\* when the image was opened, resized if the size is a tuple, and saved, and
\* False on any failure (a source that cannot be opened, an error of the
\* resize or the encoder, a path that cannot be written); when nothing fails
\* it returns True for each of PNG, JPEG, WebP and ICO, with a tuple size -
\* the saved image then has that size - and with "original" - the saved image
\* has the size of the source.
C21_ConvertImageTotal ==
    util_call.fn = "convert_image" =>
        LET o == util_ret.outcome
            size == util_call.size
        IN  /\ o.returned
            /\ o.ret <=> (o.opened /\ (~size.orig => o.resized) /\ o.saved)
            /\ C21_Fails => ~o.ret /\ ~o.saved
            /\ ~C21_Fails =>
                  /\ o.ret /\ o.saved
                  /\ o.resized <=> ~size.orig
                  /\ <<o.w, o.h>> = IF size.orig THEN <<util_call.env.src.w, util_call.env.src.h>>
                                     ELSE <<size.w, size.h>>
                  /\ o.format \in {"PNG", "JPEG", "WEBP", "ICO"}
            /\ o.saved => o.opened
            /\ o.resized => (o.opened /\ ~size.orig)

C21_Witness ==
    /\ util_call.fn = "convert_image"
    /\ util_call.fmt = "ICO" /\ util_call.size = Sz(32, 32)
    /\ util_call.env = Env(TRUE, "RGB", [w |-> 200, h |-> 200], "none")
    /\ util_ret.outcome.ret /\ util_ret.outcome.saved
    /\ <<util_ret.outcome.w, util_ret.outcome.h>> = <<32, 32>>

\* a failure of the encoder ends in the return value False
C21_WitnessFailure ==
    /\ util_call.fn = "convert_image"
    /\ util_call.fmt = "JPEG" /\ util_call.size = Original
    /\ util_call.env = Env(TRUE, "RGBA", [w |-> 200, h |-> 200], "save")
    /\ util_ret.outcome.returned /\ ~util_ret.outcome.ret

\* C30: get_safe_filename always returns a non-empty string that contains
\* none of the characters <>:"/\|?* and neither begins nor ends with a space
\* or a dot; it returns "image" when nothing else is left; and applying it to
\* its own result changes nothing.
C30_SafeFilename ==
    util_call.fn = "get_safe_filename" =>
        LET s == util_call.name
            r == util_ret.safe
            kept == SelectSeq(s, LAMBDA c : c \notin {" ", "."})
        IN  /\ Len(r) >= 1
            /\ \A k \in DOMAIN r :
                 r[k] \notin {"<", ">", ":", "\"", "/", "\\", "|", "?", "*"}
            /\ r[1] \notin {" ", "."} /\ r[Len(r)] \notin {" ", "."}
            /\ kept = <<>> <=> r = <<"i", "m", "a", "g", "e">>
            /\ kept # <<>> => Len(r) <= Len(s)
            /\ get_safe_filename(r) = r

C30_Witness ==
    /\ util_call.fn = "get_safe_filename"
    /\ util_call.name = <<".", "?", " ">>
    /\ util_ret.safe = <<"_">>

\* nothing is left of the name
C30_WitnessEmpty ==
    /\ util_call.fn = "get_safe_filename"
    /\ util_call.name = <<" ", ".", " ">>
    /\ util_ret.safe = <<"i", "m", "a", "g", "e">>

\* the name the claim gives the k-th candidate: {stem}_{k}{suffix}
C24_Numbered(k) == stem(file_path) \o <<"_">> \o decimal(k) \o suffix(file_path)

C24_Returned ==
    euf_pc = "done" =>
        /\ unique_path \notin files
        /\ file_path \notin files => unique_path = file_path
        /\ file_path \in files =>
             \E k \in 1..(Cardinality(files) + 1) :
                /\ unique_path = C24_Numbered(k)
                /\ \A j \in 1..(k - 1) : C24_Numbered(j) \in files
        /\ counter <= Cardinality(files)

\* C24: with finitely many files in the directory ensure_unique_filename(p)
\* terminates, and the path it returns does not exist: p itself when p does
\* not exist, otherwise {stem}_{k}{suffix} in the directory of p for the
\* smallest k >= 1 whose path does not exist.
C24_UniqueFilename ==
    /\ <>(euf_pc = "done")
    /\ []C24_Returned
    /\ [](counter <= Cardinality(files))

C24_Witness ==
    /\ euf_pc = "done" /\ file_path = <<"a", ".", "b", ".", "x">>
    /\ counter = 3
    /\ unique_path = <<"a", ".", "b", "_", "3", ".", "x">>
    /\ OtherFile \in files

\* the content-type of the response, compared without regard to case as
\* run() compares it, begins with "image/"
C22_IsImage ==
    LET ct == response.content_type
        low(c) == CASE c = "I" -> "i" [] c = "M" -> "m" [] c = "A" -> "a"
                    [] c = "G" -> "g" [] c = "E" -> "e" [] OTHER -> c
    IN  /\ Len(ct) >= 6
        /\ <<low(ct[1]), low(ct[2]), low(ct[3]), low(ct[4]), low(ct[5]), ct[6]>>
             = <<"i", "m", "a", "g", "e", "/">>

C22_Finished == SelectSeq(dl_signals, LAMBDA s : s.sig = "finished")
C22_Errors == SelectSeq(dl_signals, LAMBDA s : s.sig = "error")

\* C22: a run of ImageDownloader emits exactly one terminal signal,
\* download_finished or download_error - none before it ends, never both;
\* download_finished is emitted only when the URL has a scheme and a host,
\* the request succeeded, the content-type of the response begins with
\* "image/" and a non-empty temporary file was written; a response whose
\* content-type does not begin with "image/" never writes a temporary file.
C22_OneTerminalSignal ==
    /\ Len(dl_signals) = IF dl_pc = "done" THEN 1 ELSE 0
    /\ Len(C22_Finished) + Len(C22_Errors) = Len(dl_signals)
    /\ C22_Finished # <<>> =>
          /\ url.scheme /\ url.netloc
          /\ response.error = "none" /\ response.status_ok
          /\ C22_IsImage
          /\ dl_wrote /\ temp_file.exists /\ temp_file.size > 0
          /\ ~response.breaks
    /\ ~C22_IsImage => ~dl_wrote
    /\ (dl_pc = "done" /\ url.scheme /\ url.netloc /\ response.error = "none"
        /\ response.status_ok /\ C22_IsImage /\ tmp_writable /\ ~response.breaks
        /\ response.chunks > 0) => C22_Finished # <<>>

C22_Witness ==
    /\ dl_pc = "done"
    /\ dl_signals = <<DownloadFinished(<<".", "g", "i", "f">>)>>
    /\ response.content_type = <<"i", "m", "a", "g", "e", "/", "x">>
    /\ temp_file = [exists |-> TRUE, size |-> 2]

\* a response that is not an image: one error, nothing written over the
\* file an earlier download left
C22_WitnessNotImage ==
    /\ dl_pc = "done"
    /\ dl_signals = <<DownloadError("URL does not point to an image file")>>
    /\ response.content_type = <<"t", "e", "x", "t", "/", "h", "t", "m", "l">>
    /\ temp_file = [exists |-> TRUE, size |-> 5] /\ ~dl_wrote

\* C27 (as claimed): within one run every written output goes to its own
\* path - the paths of output_files are pairwise distinct and no file written
\* earlier in the run is written again for a later size spec - for every
\* sequence of size specs the window builds from its checkboxes.
C27_DistinctOutputs ==
    /\ \A a, b \in DOMAIN output_files :
         a # b => output_files[a] # output_files[b]
    /\ \A a, b \in DOMAIN written :
         a # b => written[a].name # written[b].name

\* C25 (as claimed): when cancel() is called at any moment after the worker
\* has started and before it has emitted a terminal signal - also while the
\* last size spec is being processed - that run never emits
\* conversion_finished.
C25_CancelledNeverFinishes ==
    cancelled => finished_log = <<>>

\* the signals a step emits
C28_Emitted == SubSeq(signals', Len(signals) + 1, Len(signals'))

\* the step ends the work on item i: the save returned, or the size spec was
\* skipped, or the run ended there
C28_ItemStep == pc \in InFlight /\ pc' \in {"check", "done"}

\* C28 (as claimed): progress_updated(i+1) is emitted for item i exactly when
\* the path of item i was appended to the result list, and whenever a run
\* ends Completed the last progress value emitted is the number of size specs.
C28_ProgressMatchesOutputs ==
    /\ [][C28_ItemStep =>
            ((C28_Emitted # <<>> /\ C28_Emitted[Len(C28_Emitted)] = Progress(i))
               <=> Len(output_files') = Len(output_files) + 1)]_vars
    /\ [](state = "Completed" =>
            (progress_log # <<>> /\ progress_log[Len(progress_log)] = Len(sizes)))

\* C23 (as claimed): in Fit and Crop the derived dimension is the floor of
\* the exact quotient: for a source (W, H) and a target (w, h), when
\* W/H > w/h Fit uses nh = floor(w*H/W) and Crop uses nw = floor(h*W/H);
\* otherwise Fit uses nw = floor(h*W/H) and Crop uses nh = floor(w*H/W).
C23_FloorOfExactQuotient ==
    (FitCase \/ CropCase) =>
        LET W == img_size.w
            H == img_size.h
            w == Target[1]
            h == Target[2]
            wider == W * h > w * H
        IN  IF FitCase
            THEN IF wider THEN processed.nh = (w * H) \div W
                 ELSE processed.nw = (h * W) \div H
            ELSE IF wider THEN processed.nw = (h * W) \div H
                 ELSE processed.nh = (w * H) \div W

\* C26 (as claimed): for a source (W, H) with W, H >= 1 and a size spec
\* (w, h) with 1 <= w, h <= 8000, every width and height passed to resize is
\* at least 1, and so are the dimensions the ICO limit leaves.
C26_ResizeAtLeastOne ==
    /\ \A k \in DOMAIN resizes : resizes[k].w >= 1 /\ resizes[k].h >= 1
    /\ (pc \in {"resize", "save", "ico_retry"} /\ ~sizes[i].orig) =>
          (Target[1] >= 1 /\ Target[2] >= 1)


\* what the run wrote, in order: the item, the file name, and the image and
\* the parameters of the save that succeeded
C29_OkSaves == SelectSeq(saves, LAMBDA s : s.ok)
C29_RunOutputs ==
    [r \in DOMAIN written |->
        [item |-> written[r].item, name |-> written[r].name,
         img |-> C29_OkSaves[r].img, kwargs |-> C29_OkSaves[r].kwargs]]

\* Pillow raised nothing: the only exceptions of the run and of the preview
\* are the ZeroDivisionError of converter.py:82 and ui_mainwindow.py:1362
C29_Certain(log) ==
    \A n \in DOMAIN log :
        /\ log[n].stage = "resize"
        /\ ResizeMustRaise(sizes[log[n].item], output_format, lock_aspect_ratio,
                           resize_mode)
C29_NoLibraryError == C29_Certain(exc_log) /\ C29_Certain(pv_exc)

\* C29: generate_preview_data and ImageConverter.run are equivalent on the
\* same inputs: when Pillow raises nothing, a run that is not cancelled has
\* written, for exactly the size specs of the preview, a file of the same
\* name, the same final pixel dimensions and the same encode parameters.
C29_PreviewEqualsRun ==
    (pv_pc = "done" /\ pc = "done" /\ ~cancelled /\ C29_NoLibraryError)
        => preview_data = C29_RunOutputs

\* the same, for the runs in which no exception reached the handler of an item
C29_EqualWithoutItemError ==
    (pv_pc = "done" /\ pc = "done" /\ ~cancelled /\ exc_log = <<>> /\ pv_exc = <<>>)
        => preview_data = C29_RunOutputs

====
